---- MODULE Spec2Model ----
(***************************************************************************)
(* AssetVerse backend: the request-approval / asset-assignment /           *)
(* affiliation workflow of src/routes/requests.route.js and                *)
(* src/routes/assignedAssets.route.js over the MongoDB collections         *)
(* assets, requests, assignedAssets, employeeAffiliations and users, the    *)
(* asset deletion of src/routes/assets.route.js, and the payment events of *)
(* src/routes/payments.route.js over the collections payments and users.   *)
(*                                                                         *)
(* A handler invocation occupies a slot of `calls`.  The handlers that run *)
(* their body in session.withTransaction (approve, return, affiliation     *)
(* removal) read from the snapshot taken by their first operation and see  *)
(* their own writes; a write to a document that was committed by someone   *)
(* else after that snapshot is a write conflict; all writes are published  *)
(* in one commit step.  Such a body is two steps here: its first read,     *)
(* which takes the snapshot, and the rest of the body up to the commit.    *)
(* withTransaction runs the body again after a write conflict, until its   *)
(* time limit, after which the error reaches the handler's catch.  The     *)
(* handlers that use no session (create, reject) read and write committed  *)
(* documents one operation at a time.                                      *)
(*                                                                         *)
(* E-mail addresses are stored lower-cased at registration, so identities  *)
(* are compared as they are.  Dates are left out, except returnDate, which *)
(* is modelled by whether it is set.                                       *)
(***************************************************************************)
EXTENDS Integers, Sequences, FiniteSets, TLC

\* ---------------------------------------------------------------- bounds
MaxAssets == 1
MaxRequests == 2
MaxQuantity == 1
MaxPackageLimit == 2
NumSlots == 2
MaxPayments == 3
MaxStock == 2
MaxGrants == 1

Employees == {"e1", "e2"}
OtherHRs == {"h2"}
Slots == 1..NumSlots

VARIABLES
    assets,                \* collection assets: sequence of asset documents
    requests,              \* collection requests: sequence of request documents
    assignedAssets,        \* collection assignedAssets
    employeeAffiliations,  \* collection employeeAffiliations: documents per (employee, hr)
    users,                 \* HR accounts: hr e-mail -> packageLimit, currentEmployees,
                           \* subscription
    payments,              \* collection payments: sequence of payment documents
    calls,                 \* handler invocations in flight
    out                    \* the HTTP response sent by the last step, if it sent one

vars ==
    <<assets, requests, assignedAssets, employeeAffiliations, users, payments, calls, out>>
store == <<assets, requests, assignedAssets, employeeAffiliations, users, payments>>

HRs == DOMAIN users

\* ------------------------------------------------------- store and views
Store ==
    [assets |-> assets, requests |-> requests, assignedAssets |-> assignedAssets,
     employeeAffiliations |-> employeeAffiliations, users |-> users]

NoView ==
    [assets |-> <<>>, requests |-> <<>>, assignedAssets |-> <<>>,
     employeeAffiliations |-> <<>>, users |-> <<>>]

\* No response: the step answered no request.
NoResp ==
    [op |-> "none", who |-> "", arg |-> 0, emp |-> "",
     status |-> 0, message |-> "", assignedId |-> 0, returnedCount |-> 0]

\* No checkout session: the invocation is not a payment event.
NoSession ==
    [id |-> "", metadata |-> FALSE, hrEmail |-> "", employeeLimit |-> 0,
     packageName |-> ""]

IdleCall ==
    [op |-> "none", pc |-> "idle", who |-> "", arg |-> 0, emp |-> "",
     view |-> NoView, stale |-> {}, session |-> NoSession]

\* A new invocation of handler op by caller who.
NewCall(op, who, arg, emp) ==
    [IdleCall EXCEPT !.op = op, !.who = who, !.arg = arg, !.emp = emp]

\* The response res.status(status).json({message}) of an invocation; for a
\* decision on a request, who is the HR it is sent to.
Response(call, status, message) ==
    [NoResp EXCEPT !.op = call.op, !.arg = call.arg,
                   !.who = IF call.op \in {"approve", "reject"} THEN call.who ELSE "",
                   !.emp = IF call.op = "remove" THEN call.emp ELSE "",
                   !.status = status, !.message = message]

AssetKey(a) == <<"assets", a>>
RequestKey(r) == <<"requests", r>>
AssignedKey(k) == <<"assignedAssets", k>>
AffKey(e, h) == <<"employeeAffiliations", e, h>>
UserKey(h) == <<"users", h>>

\* Slots are interchangeable: a new invocation takes the lowest idle one.
Free(c) ==
    /\ calls[c].pc = "idle"
    /\ \A d \in Slots : d < c => calls[d].pc # "idle"

\* The same writes with no isolation between transactions.
NoWriteConflict(c, keys) == FALSE

\* A write of `keys` by slot c inside its transaction meets a write conflict:
\* one of them was committed by someone else after c's snapshot.
WriteConflict(c, keys) == keys \cap calls[c].stale # {}

\* ------------------------------------------------------------------ Init
\* The HR account as the register route leaves it (packageLimit from the body,
\* default 5, currentEmployees = 0, subscription 'basic') and as earlier
\* approvals of requests of the employees S, for assets that play no further
\* part, have left it: one affiliation per employee of S and
\* currentEmployees = |S|.
Registered(l, S) ==
    /\ users = [h \in {"h1"} |->
                    [packageLimit |-> l, currentEmployees |-> Cardinality(S),
                     subscription |-> "basic"]]
    /\ employeeAffiliations = [p \in Employees \X {"h1"} |-> IF p[1] \in S THEN 1 ELSE 0]

\* connectDB has run and the HR account is registered.
Init ==
    /\ assets = <<>>
    /\ requests = <<>>
    /\ assignedAssets = <<>>
    /\ payments = <<>>
    /\ \E l \in 1..MaxPackageLimit : Registered(l, {})
    /\ calls = [c \in Slots |-> IdleCall]
    /\ out = NoResp

\* The same, with employee e1 enrolled by an earlier approval.
InitEnrolled ==
    /\ assets = <<>>
    /\ requests = <<>>
    /\ assignedAssets = <<>>
    /\ payments = <<>>
    /\ \E l \in 1..MaxPackageLimit : Registered(l, {"e1"})
    /\ calls = [c \in Slots |-> IdleCall]
    /\ out = NoResp

\* ------------------------------------------------------ response messages
MsgQuantityRequired == "productName, productType and productQuantity are required"
MsgQuantityInvalid == "productQuantity must be a non-negative integer"
MsgAssetCreated == "Asset created"
MsgCreateAssetNotFound == "Asset not found"
MsgRequestCreated == "Request created"
MsgRequestNotFound == "Request not found"
MsgNotAuthorizedRequest == "Not authorized for this request"
MsgNotPending == "Request not pending"
MsgAssetNotFound == "Associated asset not found"
MsgNotAvailable == "Asset not available"
MsgDecrementFailed == "Failed to decrement asset (concurrent update?)"
MsgLimitReached == "Package employee limit reached; cannot create new affiliation. Please upgrade package."
MsgWriteConflict == "WriteConflict"
MsgStorageFailure == "connection closed"
MsgApproved == "Request approved"
MsgRejectNotAuthorized == "Not authorized"
MsgOnlyPending == "Only pending requests can be rejected"
MsgRejected == "Request rejected"
MsgAssignedNotFound == "Assigned asset not found"
MsgNotAuthorizedReturn == "Not authorized to return this asset"
MsgNotAssigned == "Asset is not currently assigned or already returned"
MsgUnderlyingNotFound == "Underlying asset record not found"
MsgNonReturnable == "This asset type is non-returnable"
MsgReturned == "Return processed successfully"
MsgAffiliationNotFound == "Affiliation not found for this employee under your company"
MsgRemoved == "Employee removed and assignments returned"
MsgDeleteNotFound == "Asset not found"
MsgDeleteNotAuthorized == "Not authorized to delete this asset"
MsgStillAssigned == "Cannot delete asset with currently assigned items"
MsgDeleted == "Asset deleted"
MsgWebhookError == "Webhook Error"
MsgReceived == "received"
MsgWebhookProcessing == "Webhook processing error"
MsgSimulateSecret == "Simulate secret missing or invalid"
MsgSessionRequired == "session with metadata required"
MsgSimulated == "Simulated webhook processed"
MsgSimulateFailed == "Simulate failed"

\* ------------------------------------------------------ document updates
\* req.user.companyName of HR h: the company name h registered with.
CompanyName(h) == "company of " \o h

\* POST /assets: the inserted document; the body names no companyName, so the
\* HR's own is taken.
AssetDoc(h, type, qty) ==
    [productType |-> type, productQuantity |-> qty, availableQuantity |-> qty,
     hrEmail |-> h, companyName |-> CompanyName(h), exists |-> TRUE]

\* The document below without the asset's owner and company.
RequestDocUnowned(asset, a, e) ==
    [assetId |-> a, assetType |-> asset.productType, requesterEmail |-> e,
     hrEmail |-> "", companyName |-> "",
     requestStatus |-> "pending", processedBy |-> ""]

\* POST /requests: the inserted document.
RequestDoc(asset, a, e) ==
    [assetId |-> a, assetType |-> asset.productType, requesterEmail |-> e,
     hrEmail |-> asset.hrEmail, companyName |-> asset.companyName,
     requestStatus |-> "pending", processedBy |-> ""]

\* approve step 2: updateOne({_id, availableQuantity: {$gt: 0}},
\*                           {$inc: {availableQuantity: -1}})
DecrementMatches(asset) == asset.availableQuantity > 0

\* That update with its $inc left out, and the update.
NotDecremented(asset) == asset
Decremented(asset) == [asset EXCEPT !.availableQuantity = @ - 1]

\* approve step 3: the assignedAssets document.
AssignedDoc(asset, a, request, h) ==
    [assetId |-> a, assetType |-> asset.productType,
     employeeEmail |-> request.requesterEmail, hrEmail |-> h,
     status |-> "assigned", returned |-> FALSE]

\* approve step 4: $set requestStatus, approvalDate, processedBy.
Approved(request, h) ==
    [request EXCEPT !.requestStatus = "approved", !.processedBy = h]

\* approve step 5: findOne on employeeAffiliations, and the same findOne in
\* the affiliation removal; first a findOne that never finds the document and
\* one that always does.
NoExistingAff(v, e, h) == FALSE
AnyExistingAff(v, e, h) == TRUE
ExistingAff(v, e, h) == v.employeeAffiliations[<<e, h>>] > 0

\* approve step 5 with the capacity test left out, and the capacity test on
\* the HR's user document.
NoLimit(hrUser) == FALSE
LimitReached(hrUser) == hrUser.currentEmployees + 1 > hrUser.packageLimit

\* approve step 5 with the $inc of currentEmployees left out, and the $inc.
NotEnrolled(hrUser) == hrUser
Enrolled(hrUser) == [hrUser EXCEPT !.currentEmployees = @ + 1]

\* reject with its $set left out, and
\* $set requestStatus, approvalDate, processedBy.
NotRejected(request, h) == request
Rejected(request, h) ==
    [request EXCEPT !.requestStatus = "rejected", !.processedBy = h]

\* return step 5 and removal step 3: $set status, returnDate.
MarkedReturned(assigned) == [assigned EXCEPT !.status = "returned", !.returned = TRUE]

\* return step 6 and removal step 3 with the $inc left out, and
\* $inc: {availableQuantity: 1}
NotIncremented(asset) == asset
Incremented(asset) == [asset EXCEPT !.availableQuantity = @ + 1]

\* return step 7 and removal step 3 with the $set left out, and
\* $set: {requestStatus: 'returned'}
NotRequestReturned(request) == request
RequestReturned(request) == [request EXCEPT !.requestStatus = "returned"]

\* removal step 5: $inc: {currentEmployees: -1}
Unenrolled(hrUser) == [hrUser EXCEPT !.currentEmployees = @ - 1]

\* The approved requests of employee e for asset a: the candidates of the
\* findOne / updateOne that links a return to a request.
RelatedRequests(v, a, e) ==
    {r \in DOMAIN v.requests :
        /\ v.requests[r].assetId = a
        /\ v.requests[r].requesterEmail = e
        /\ v.requests[r].requestStatus = "approved"}

\* findOne / updateOne without a sort take the first match in insertion order.
FirstOf(S) == CHOOSE r \in S : \A q \in S : r <= q

\* v after return step 7 / one removal pass linked the return to a request.
LinkReturn(v, a, e) ==
    IF RelatedRequests(v, a, e) = {} THEN v
    ELSE [v EXCEPT !.requests[FirstOf(RelatedRequests(v, a, e))] = RequestReturned(@)]

LinkKeys(v, a, e) ==
    IF RelatedRequests(v, a, e) = {} THEN {}
    ELSE {RequestKey(FirstOf(RelatedRequests(v, a, e)))}

\* removal step 2's find without hrEmail in its filter.
RECURSIVE AssignedListAnyHR(_, _, _, _)
AssignedListAnyHR(coll, e, h, k) ==
    IF k > Len(coll) THEN <<>>
    ELSE IF coll[k].employeeEmail = e /\ coll[k].status = "assigned"
         THEN <<k>> \o AssignedListAnyHR(coll, e, h, k + 1)
         ELSE AssignedListAnyHR(coll, e, h, k + 1)

\* removal step 2's find: the employee's assigned documents under this HR,
\* from position k on, in order.
RECURSIVE AssignedList(_, _, _, _)
AssignedList(coll, e, h, k) ==
    IF k > Len(coll) THEN <<>>
    ELSE IF /\ coll[k].employeeEmail = e
            /\ coll[k].hrEmail = h
            /\ coll[k].status = "assigned"
         THEN <<k>> \o AssignedList(coll, e, h, k + 1)
         ELSE AssignedList(coll, e, h, k + 1)

\* removal step 3: the loop over the assigned documents of `list`.  Each pass
\* marks the document returned, gives the unit back to the asset (an updateOne
\* that matches nothing when the asset is gone) and links one approved request.
RECURSIVE Cascade(_, _, _)
Cascade(v, list, e) ==
    IF list = <<>> THEN v
    ELSE LET k == Head(list)
             a == v.assignedAssets[k].assetId
             v1 == [v EXCEPT !.assignedAssets[k] = MarkedReturned(@),
                             !.assets[a] = IF @.exists THEN Incremented(@) ELSE @]
         IN  Cascade(LinkReturn(v1, a, e), Tail(list), e)

\* The documents that loop writes.
RECURSIVE CascadeKeys(_, _, _)
CascadeKeys(v, list, e) ==
    IF list = <<>> THEN {}
    ELSE LET k == Head(list)
             a == v.assignedAssets[k].assetId
             v1 == [v EXCEPT !.assignedAssets[k] = MarkedReturned(@),
                             !.assets[a] = IF @.exists THEN Incremented(@) ELSE @]
         IN  {AssignedKey(k)} \cup (IF v.assets[a].exists THEN {AssetKey(a)} ELSE {})
                 \cup LinkKeys(v1, a, e)
                 \cup CascadeKeys(LinkReturn(v1, a, e), Tail(list), e)

\* --------------------------------------------------- payment documents
\* The checkout sessions that events and simulate bodies carry.  A session id
\* names one session, so two deliveries with one id carry the same session.
\* The metadata's employeeLimit is read as Number(metadata.employeeLimit || 0);
\* a session without metadata has no hrEmail and the limit 0.
Sessions ==
    {[id |-> "cs_1", metadata |-> TRUE, hrEmail |-> "h1", employeeLimit |-> 1,
      packageName |-> "basic"],
     [id |-> "cs_2", metadata |-> TRUE, hrEmail |-> "h1", employeeLimit |-> 3,
      packageName |-> ""],
     [id |-> "cs_3", metadata |-> TRUE, hrEmail |-> "h1", employeeLimit |-> 0,
      packageName |-> "premium"],
     [id |-> "cs_4", metadata |-> TRUE, hrEmail |-> "", employeeLimit |-> 3,
      packageName |-> "premium"],
     [id |-> "cs_5", metadata |-> TRUE, hrEmail |-> "h9", employeeLimit |-> 3,
      packageName |-> "premium"],
     [id |-> "cs_6", metadata |-> FALSE, hrEmail |-> "", employeeLimit |-> 0,
      packageName |-> ""],
     [id |-> "", metadata |-> TRUE, hrEmail |-> "h1", employeeLimit |-> 2,
      packageName |-> "standard"]}

EventTypes == {"checkout.session.completed", "invoice.paid"}

\* The values of the SIMULATE_SECRET setting and of the x-simulate-secret
\* header; "" is a setting or header that is not there.
Secrets == {"", "s3cret", "guess"}

\* transactionId: session.id of the webhook; sessionObj.id || `sim_${Date.now()}`
\* of the simulate route, n being the time of the insert.
TransactionId(op, s, n) ==
    IF s.id = "" /\ op = "simulate" THEN "sim_" \o ToString(n) ELSE s.id

\* The payments document both handlers insert.
PaymentDoc(op, s, n) ==
    [transactionId |-> TransactionId(op, s, n), hrEmail |-> s.hrEmail,
     packageName |-> s.packageName, employeeLimit |-> s.employeeLimit,
     status |-> "completed"]

\* The update applied whatever the metadata, and the test
\* if (hrEmail && employeeLimit > 0)
GrantsAlways(s) == TRUE
Grants(s) == s.hrEmail # "" /\ s.employeeLimit > 0

\* The grant as an add-on, $inc: {packageLimit: employeeLimit}, and
\* $set: {packageLimit: employeeLimit, subscription: packageName || 'upgraded'}
GrantedOnTop(hrUser, s) ==
    [hrUser EXCEPT !.packageLimit = @ + s.employeeLimit,
                   !.subscription = IF s.packageName # "" THEN s.packageName
                                    ELSE "upgraded"]
Granted(hrUser, s) ==
    [hrUser EXCEPT !.packageLimit = s.employeeLimit,
                   !.subscription = IF s.packageName # "" THEN s.packageName
                                    ELSE "upgraded"]

\* ------------------------------------------------- steps of an invocation
\* The documents the open transaction of `call` is going to write.
Touches(call) ==
    LET v == call.view
    IN  CASE call.op = "approve" ->
                 {AssetKey(v.requests[call.arg].assetId), RequestKey(call.arg)}
                   \cup (IF \/ ExistingAff(v, call.emp, call.who)
                             \/ LimitReached(v.users[call.who])
                          THEN {}
                          ELSE {AffKey(call.emp, call.who), UserKey(call.who)})
          [] call.op = "return" ->
                 {AssignedKey(call.arg), AssetKey(v.assignedAssets[call.arg].assetId)}
                   \cup LinkKeys(v, v.assignedAssets[call.arg].assetId, call.emp)
          [] call.op = "remove" ->
                 CascadeKeys(v, AssignedList(v.assignedAssets, call.emp, call.who, 1), call.emp)
                   \cup {AffKey(call.emp, call.who), UserKey(call.who)}
          [] call.op \in {"webhook", "simulate"} ->
                 IF Grants(call.session) /\ call.session.hrEmail \in DOMAIN users
                 THEN {UserKey(call.session.hrEmail)}
                 ELSE {}
          [] OTHER -> {}

\* Another slot's record after `keys` were committed: a snapshot it holds is
\* now older than those documents.
MarkStale(call, keys) ==
    IF call.pc = "run" THEN [call EXCEPT !.stale = @ \cup (keys \cap Touches(call))]
    ELSE call

\* Slot c moves on inside its handler; nothing is committed or answered.
Step(c, call) ==
    /\ calls' = [calls EXCEPT ![c] = call]
    /\ UNCHANGED store
    /\ out' = NoResp

\* The handler returning with its endSession left out, and the handler
\* returning: the session it started, if any, is ended (endSession before the
\* response) and its slot is free again.
NotEnded(call) == [call EXCEPT !.pc = "open"]
Ended(call) == IdleCall

\* Slot c answers without having committed anything: a failed test outside a
\* transaction, or a throw inside one (the transaction is aborted, the session
\* ended, and the catch block answers).
Answer(c, call, status, message) ==
    /\ calls' = [calls EXCEPT ![c] = Ended(call)]
    /\ UNCHANGED store
    /\ out' = Response(call, status, message)

\* withTransaction left waiting after the abort, and withTransaction starting
\* the body again with a fresh transaction.
NotRestarted(call) == [call EXCEPT !.pc = "aborted", !.view = NoView, !.stale = {}]
Restarted(call) == [call EXCEPT !.pc = "begin", !.view = NoView, !.stale = {}]

\* Slot c's write met a write conflict: withTransaction runs the body again,
\* or, past its time limit, lets the error reach the catch block.
ConflictOutcome(c) ==
    \/ Step(c, Restarted(calls[c]))
    \/ Answer(c, calls[c], 400, MsgWriteConflict)

\* The committed collections after a transaction that started from snapshot b
\* and holds view v publishes the documents of its write set W and its inserted
\* assignedAssets documents; the affiliation documents it inserted or deleted
\* are added to or taken from the committed ones.
CommitStore(b, v, W, ins) ==
    /\ assets' = [i \in DOMAIN assets |->
                     IF AssetKey(i) \in W THEN v.assets[i] ELSE assets[i]]
    /\ requests' = [i \in DOMAIN requests |->
                     IF RequestKey(i) \in W THEN v.requests[i] ELSE requests[i]]
    /\ assignedAssets' = [i \in DOMAIN assignedAssets |->
                     IF AssignedKey(i) \in W THEN v.assignedAssets[i]
                     ELSE assignedAssets[i]] \o ins
    /\ employeeAffiliations' = [p \in DOMAIN employeeAffiliations |->
                     IF AffKey(p[1], p[2]) \in W
                     THEN employeeAffiliations[p]
                              + v.employeeAffiliations[p] - b.employeeAffiliations[p]
                     ELSE employeeAffiliations[p]]
    /\ users' = [h \in DOMAIN users |->
                     IF UserKey(h) \in W THEN v.users[h] ELSE users[h]]
    /\ payments' = payments

\* Slot c commits and answers; every other open transaction's snapshot is
\* now older than the documents of W.
Commit(c, v, W, ins, resp) ==
    /\ CommitStore(calls[c].view, v, W, ins)
    /\ calls' = [d \in Slots |->
                    IF d = c THEN Ended(calls[c]) ELSE MarkStale(calls[d], W)]
    /\ out' = resp

\* ---------------------------------------------------------- POST /assets
\* The body's productQuantity is the number qty, sent as a JSON number or,
\* when quoted, as a string: !productQuantity is true of the number 0 only.
QuantityMissing(qty, quoted) == ~ quoted /\ qty = 0

\* !Number.isInteger(qty) || qty < 0, on the integers.
QuantityInvalid(qty) == qty < 0

CreateAsset(h, type, qty, quoted) ==
    /\ Len(assets) < MaxAssets
    /\ IF QuantityMissing(qty, quoted)
       THEN /\ assets' = assets
            /\ out' = Response(NewCall("createAsset", h, 0, ""), 400, MsgQuantityRequired)
       ELSE IF QuantityInvalid(qty)
       THEN /\ assets' = assets
            /\ out' = Response(NewCall("createAsset", h, 0, ""), 400, MsgQuantityInvalid)
       ELSE /\ assets' = Append(assets, AssetDoc(h, type, qty))
            /\ out' = Response(NewCall("createAsset", h, Len(assets) + 1, ""),
                               201, MsgAssetCreated)
    /\ UNCHANGED <<requests, assignedAssets, employeeAffiliations, users, payments, calls>>

\* -------------------------------------------------------- POST /requests
\* The asset is read, then the request is inserted with the asset's hrEmail.
CreateRequest(e, a) ==
    /\ Len(requests) < MaxRequests
    /\ IF a \in DOMAIN assets /\ assets[a].exists
       THEN /\ requests' = Append(requests, RequestDoc(assets[a], a, e))
            /\ out' = Response(NewCall("createRequest", e, a, e), 201, MsgRequestCreated)
       ELSE /\ requests' = requests
            /\ out' = Response(NewCall("createRequest", e, a, e), 404, MsgCreateAssetNotFound)
    /\ UNCHANGED <<assets, assignedAssets, employeeAffiliations, users, payments, calls>>

\* ------------------------------------------- PUT /requests/:id/approve
\* Step 1 and the reads of step 2, against the snapshot v; first with the
\* status test ahead of the ownership test.
ApprovePreconditionReordered(v, h, r) ==
    IF r \notin DOMAIN v.requests THEN MsgRequestNotFound
    ELSE IF v.requests[r].requestStatus # "pending" THEN MsgNotPending
    ELSE IF v.requests[r].hrEmail # h THEN MsgNotAuthorizedRequest
    ELSE IF ~ v.assets[v.requests[r].assetId].exists THEN MsgAssetNotFound
    ELSE IF v.assets[v.requests[r].assetId].availableQuantity <= 0 THEN MsgNotAvailable
    ELSE ""
ApprovePrecondition(v, h, r) ==
    IF r \notin DOMAIN v.requests THEN MsgRequestNotFound
    ELSE IF v.requests[r].hrEmail # h THEN MsgNotAuthorizedRequest
    ELSE IF v.requests[r].requestStatus # "pending" THEN MsgNotPending
    ELSE IF ~ v.assets[v.requests[r].assetId].exists THEN MsgAssetNotFound
    ELSE IF v.assets[v.requests[r].assetId].availableQuantity <= 0 THEN MsgNotAvailable
    ELSE ""

\* The body up to its first write, on a fresh snapshot of the store.
ApproveBody(c, call) ==
    LET msg == ApprovePrecondition(Store, call.who, call.arg)
    IN  IF msg # ""
        THEN Answer(c, call, 400, msg)
        ELSE Step(c, [call EXCEPT !.pc = "run", !.view = Store,
                                  !.emp = requests[call.arg].requesterEmail])

ApproveStart(c, h, r) ==
    /\ Free(c)
    /\ ApproveBody(c, NewCall("approve", h, r, ""))

ApproveRetry(c) ==
    /\ calls[c].op = "approve"
    /\ calls[c].pc = "begin"
    /\ ApproveBody(c, calls[c])

\* The response of a committed approval: the inserted document's id.
ApprovedResponse(call) ==
    [Response(call, 200, MsgApproved) EXCEPT !.assignedId = Len(assignedAssets) + 1]

\* Steps 2 to 5 of the body, in order, and the commit.
ApproveRun(c) ==
    /\ calls[c].op = "approve"
    /\ calls[c].pc = "run"
    /\ LET call == calls[c]
           r == call.arg
           h == call.who
           e == call.emp
           a == call.view.requests[r].assetId
           ins == <<AssignedDoc(call.view.assets[a], a, call.view.requests[r], h)>>
           v4 == [call.view EXCEPT !.assets[a] = Decremented(@),
                                   !.requests[r] = Approved(@, h)]
           v5 == [v4 EXCEPT !.employeeAffiliations[<<e, h>>] = @ + 1,
                            !.users[h] = Enrolled(@)]
       IN  IF WriteConflict(c, {AssetKey(a)})
           THEN ConflictOutcome(c)
           ELSE IF ~ DecrementMatches(call.view.assets[a])
           THEN Answer(c, call, 400, MsgDecrementFailed)
           ELSE IF WriteConflict(c, {RequestKey(r)})
           THEN ConflictOutcome(c)
           ELSE IF ExistingAff(v4, e, h)
           THEN Commit(c, v4, {AssetKey(a), RequestKey(r)}, ins, ApprovedResponse(call))
           ELSE IF LimitReached(v4.users[h])
           THEN Answer(c, call, 400, MsgLimitReached)
           ELSE IF WriteConflict(c, {AffKey(e, h), UserKey(h)})
           THEN ConflictOutcome(c)
           ELSE Commit(c, v5, {AssetKey(a), RequestKey(r), AffKey(e, h), UserKey(h)},
                       ins, ApprovedResponse(call))

\* -------------------------------------------- PUT /requests/:id/reject
\* The handler's findOne and its three tests, on the committed request; first
\* without the ownership test.
RejectPreconditionAnyHR(h, r) ==
    IF r \notin DOMAIN requests THEN <<404, MsgRequestNotFound>>
    ELSE IF requests[r].requestStatus # "pending" THEN <<400, MsgOnlyPending>>
    ELSE <<0, "">>
RejectPrecondition(h, r) ==
    IF r \notin DOMAIN requests THEN <<404, MsgRequestNotFound>>
    ELSE IF requests[r].hrEmail # h THEN <<403, MsgRejectNotAuthorized>>
    ELSE IF requests[r].requestStatus # "pending" THEN <<400, MsgOnlyPending>>
    ELSE <<0, "">>

RejectStart(c, h, r) ==
    /\ Free(c)
    /\ LET call == NewCall("reject", h, r, "")
           pre == RejectPrecondition(h, r)
       IN  IF pre[1] # 0
           THEN Answer(c, call, pre[1], pre[2])
           ELSE Step(c, [call EXCEPT !.pc = "rejectWrite"])

\* updateOne({_id: request._id}, {$set: ...}) without a session.
RejectWrite(c) ==
    /\ calls[c].op = "reject"
    /\ calls[c].pc = "rejectWrite"
    /\ requests' = [requests EXCEPT ![calls[c].arg] = Rejected(@, calls[c].who)]
    /\ calls' = [d \in Slots |->
           IF d = c THEN IdleCall
           ELSE MarkStale(calls[d], {RequestKey(calls[c].arg)})]
    /\ out' = Response(calls[c], 200, MsgRejected)
    /\ UNCHANGED <<assets, assignedAssets, employeeAffiliations, users, payments>>

\* ------------------------------------- POST /assigned-assets/:id/return
\* Steps 1 to 3 of the body only.
ReturnPreconditionAnyType(v, u, k) ==
    IF k \notin DOMAIN v.assignedAssets THEN MsgAssignedNotFound
    ELSE IF v.assignedAssets[k].employeeEmail # u THEN MsgNotAuthorizedReturn
    ELSE IF v.assignedAssets[k].status # "assigned" THEN MsgNotAssigned
    ELSE ""

\* Steps 1, 2 and 4 of the body only.
ReturnPreconditionAnyStatus(v, u, k) ==
    IF k \notin DOMAIN v.assignedAssets THEN MsgAssignedNotFound
    ELSE IF v.assignedAssets[k].employeeEmail # u THEN MsgNotAuthorizedReturn
    ELSE IF ~ v.assets[v.assignedAssets[k].assetId].exists THEN MsgUnderlyingNotFound
    ELSE IF v.assets[v.assignedAssets[k].assetId].productType # "Returnable"
         THEN MsgNonReturnable
    ELSE ""

\* Steps 1 to 4 of the body, against the snapshot v.
ReturnPrecondition(v, u, k) ==
    IF k \notin DOMAIN v.assignedAssets THEN MsgAssignedNotFound
    ELSE IF v.assignedAssets[k].employeeEmail # u THEN MsgNotAuthorizedReturn
    ELSE IF v.assignedAssets[k].status # "assigned" THEN MsgNotAssigned
    ELSE IF ~ v.assets[v.assignedAssets[k].assetId].exists THEN MsgUnderlyingNotFound
    ELSE IF v.assets[v.assignedAssets[k].assetId].productType # "Returnable"
         THEN MsgNonReturnable
    ELSE ""

ReturnBody(c, call) ==
    LET msg == ReturnPrecondition(Store, call.who, call.arg)
    IN  IF msg # ""
        THEN Answer(c, call, 400, msg)
        ELSE Step(c, [call EXCEPT !.pc = "run", !.view = Store,
                                  !.emp = assignedAssets[call.arg].employeeEmail])

ReturnStart(c, u, k) ==
    /\ Free(c)
    /\ ReturnBody(c, NewCall("return", u, k, ""))

ReturnRetry(c) ==
    /\ calls[c].op = "return"
    /\ calls[c].pc = "begin"
    /\ ReturnBody(c, calls[c])

ReturnedResponse(call) ==
    [Response(call, 200, MsgReturned) EXCEPT !.assignedId = call.arg]

\* Steps 5 to 7 of the body, and the commit.
ReturnRun(c) ==
    /\ calls[c].op = "return"
    /\ calls[c].pc = "run"
    /\ LET call == calls[c]
           k == call.arg
           a == call.view.assignedAssets[k].assetId
           v6 == [call.view EXCEPT !.assignedAssets[k] = MarkedReturned(@),
                                   !.assets[a] = Incremented(@)]
           W == {AssignedKey(k), AssetKey(a)} \cup LinkKeys(v6, a, call.emp)
       IN  IF WriteConflict(c, W)
           THEN ConflictOutcome(c)
           ELSE Commit(c, LinkReturn(v6, a, call.emp), W, <<>>, ReturnedResponse(call))

\* ------------------------------------ DELETE /affiliations/:employeeEmail
\* Steps 1 and 2, on a fresh snapshot of the store.
RemoveBody(c, call) ==
    IF ~ ExistingAff(Store, call.emp, call.who)
    THEN Answer(c, call, 400, MsgAffiliationNotFound)
    ELSE Step(c, [call EXCEPT !.pc = "run", !.view = Store])

RemoveStart(c, h, e) ==
    /\ Free(c)
    /\ RemoveBody(c, NewCall("remove", h, 0, e))

RemoveRetry(c) ==
    /\ calls[c].op = "remove"
    /\ calls[c].pc = "begin"
    /\ RemoveBody(c, calls[c])

RemovedResponse(call, list) ==
    [Response(call, 200, MsgRemoved) EXCEPT !.returnedCount = Len(list)]

\* Steps 3 to 5 of the body, and the commit.
RemoveRun(c) ==
    /\ calls[c].op = "remove"
    /\ calls[c].pc = "run"
    /\ LET call == calls[c]
           h == call.who
           e == call.emp
           list == AssignedList(call.view.assignedAssets, e, h, 1)
           v3 == Cascade(call.view, list, e)
           v5 == [v3 EXCEPT !.employeeAffiliations[<<e, h>>] = @ - 1,
                            !.users[h] = Unenrolled(@)]
           W == CascadeKeys(call.view, list, e) \cup {AffKey(e, h), UserKey(h)}
       IN  IF WriteConflict(c, W)
           THEN ConflictOutcome(c)
           ELSE Commit(c, v5, W, <<>>, RemovedResponse(call, list))

\* ------------------------------------------------------ DELETE /assets/:id
\* countDocuments({assetId, status: 'assigned'}) on the committed collection.
AssignedCount(a) ==
    Cardinality({k \in DOMAIN assignedAssets :
                    /\ assignedAssets[k].assetId = a
                    /\ assignedAssets[k].status = "assigned"})

\* The handler's findOne, its ownership test and its count.
DeletePrecondition(h, a) ==
    IF a \notin DOMAIN assets \/ ~ assets[a].exists THEN <<404, MsgDeleteNotFound>>
    ELSE IF assets[a].hrEmail # h THEN <<403, MsgDeleteNotAuthorized>>
    ELSE IF AssignedCount(a) > 0 THEN <<400, MsgStillAssigned>>
    ELSE <<0, "">>

DeleteStart(c, h, a) ==
    /\ Free(c)
    /\ LET call == NewCall("deleteAsset", h, a, "")
           pre == DeletePrecondition(h, a)
       IN  IF pre[1] # 0
           THEN Answer(c, call, pre[1], pre[2])
           ELSE Step(c, [call EXCEPT !.pc = "deleteWrite"])

\* deleteOne({_id}) without a session.
DeleteWrite(c) ==
    /\ calls[c].op = "deleteAsset"
    /\ calls[c].pc = "deleteWrite"
    /\ assets' = [assets EXCEPT ![calls[c].arg].exists = FALSE]
    /\ calls' = [d \in Slots |->
           IF d = c THEN IdleCall
           ELSE MarkStale(calls[d], {AssetKey(calls[c].arg)})]
    /\ out' = Response(calls[c], 200, MsgDeleted)
    /\ UNCHANGED <<requests, assignedAssets, employeeAffiliations, users, payments>>

\* ------------------------------------------------------ payment events
\* Payment invocations that have not answered yet.
PaymentsOpen ==
    Cardinality({c \in Slots : calls[c].op \in {"webhook", "simulate"}})

\* A new invocation carrying the checkout session s; arg is 1 when the
\* credential the request presents (the stripe-signature header, the
\* x-simulate-secret header) is the right one, else 0.
PaymentCall(op, s, genuine) ==
    [NewCall(op, s.hrEmail, IF genuine THEN 1 ELSE 0, "") EXCEPT !.session = s]

\* The check of the stripe-signature header left out, and
\* stripe.webhooks.constructEvent, which throws unless the signature verifies.
AnySignature(signed) == TRUE
SignatureVerified(signed) == signed

\* The secret test of the simulate route left out, and the test
\* !SIM_SECRET || header !== SIM_SECRET.
AnySecret(configured, header) == FALSE
SecretRefused(configured, header) == configured = "" \/ header # configured

\* POST /payments/webhook: the signature check and the event type test; a
\* completed checkout opens the transaction, whose first operation is the
\* insert.
WebhookStart(c, signed, type, s) ==
    /\ Free(c)
    /\ Len(payments) + PaymentsOpen < MaxPayments
    /\ LET call == PaymentCall("webhook", s, signed)
       IN  IF ~ SignatureVerified(signed)
           THEN Answer(c, call, 400, MsgWebhookError)
           ELSE IF type # "checkout.session.completed"
           THEN Answer(c, call, 200, MsgReceived)
           ELSE Step(c, [call EXCEPT !.pc = "run"])

\* POST /payments/simulate: the secret and body tests, then the same
\* transaction.
SimulateStart(c, configured, header, s) ==
    /\ Free(c)
    /\ Len(payments) + PaymentsOpen < MaxPayments
    /\ LET call == PaymentCall("simulate", s, configured # "" /\ header = configured)
       IN  IF SecretRefused(configured, header)
           THEN Answer(c, call, 403, MsgSimulateSecret)
           ELSE IF ~ s.metadata
           THEN Answer(c, call, 400, MsgSessionRequired)
           ELSE Step(c, [call EXCEPT !.pc = "run"])

\* withTransaction runs the body again.
PaymentRetry(c) ==
    /\ calls[c].op \in {"webhook", "simulate"}
    /\ calls[c].pc = "begin"
    /\ Step(c, [calls[c] EXCEPT !.pc = "run"])

\* The response of a processed event.
PaymentResponse(call) ==
    IF call.op = "webhook" THEN Response(call, 200, MsgReceived)
    ELSE Response(call, 200, MsgSimulated)

\* The response of the catch block.
PaymentFailure(call) ==
    IF call.op = "webhook" THEN MsgWebhookProcessing ELSE MsgSimulateFailed

\* The transaction body after its snapshot: the insert of the payment
\* document, the $set on the HR's user document, and the commit.
PaymentRun(c) ==
    /\ calls[c].op \in {"webhook", "simulate"}
    /\ calls[c].pc = "run"
    /\ LET call == calls[c]
           s == call.session
           W == Touches(call)
       IN  IF WriteConflict(c, W)
           THEN \/ Step(c, Restarted(call))
                \/ Answer(c, call, 500, PaymentFailure(call))
           ELSE /\ payments' = Append(payments, PaymentDoc(call.op, s, Len(payments) + 1))
                /\ users' = [h \in DOMAIN users |->
                                IF UserKey(h) \in W THEN Granted(users[h], s)
                                ELSE users[h]]
                /\ calls' = [d \in Slots |->
                                IF d = c THEN Ended(call) ELSE MarkStale(calls[d], W)]
                /\ out' = PaymentResponse(call)
                /\ UNCHANGED <<assets, requests, assignedAssets, employeeAffiliations>>

\* ------------------------------------------------------------------ Next
\* The routes, one group of steps per route.
Creations ==
    \/ \E h \in HRs, t \in {"Returnable", "Non-returnable"},
          q \in -1..MaxQuantity, quoted \in BOOLEAN :
           CreateAsset(h, t, q, quoted)
    \/ \E e \in Employees, a \in 1..MaxAssets : CreateRequest(e, a)
Approvals ==
    \/ \E c \in Slots, h \in HRs, r \in 1..MaxRequests : ApproveStart(c, h, r)
    \/ \E c \in Slots : ApproveRetry(c)
    \/ \E c \in Slots : ApproveRun(c)
Rejections ==
    \/ \E c \in Slots, h \in HRs, r \in 1..MaxRequests : RejectStart(c, h, r)
    \/ \E c \in Slots : RejectWrite(c)
Returns ==
    \/ \E c \in Slots, u \in Employees, k \in 1..MaxRequests : ReturnStart(c, u, k)
    \/ \E c \in Slots : ReturnRetry(c)
    \/ \E c \in Slots : ReturnRun(c)
Removals ==
    \/ \E c \in Slots, h \in HRs, e \in Employees : RemoveStart(c, h, e)
    \/ \E c \in Slots : RemoveRetry(c)
    \/ \E c \in Slots : RemoveRun(c)
Deletions ==
    \/ \E c \in Slots, h \in HRs, a \in 1..MaxAssets : DeleteStart(c, h, a)
    \/ \E c \in Slots : DeleteWrite(c)

\* The workflow: every route of assets, requests and assigned assets but
\* asset deletion.
Next ==
    \/ Creations
    \/ Approvals
    \/ Rejections
    \/ Returns
    \/ Removals

Spec == Init /\ [][Next]_vars

\* Creation and the three transactions on stock and enrolment: approvals,
\* returns and removals.
NextEnrolled ==
    \/ Creations
    \/ Approvals
    \/ Returns
    \/ Removals

\* The same, from the state in which employee e1 is enrolled.
SpecEnrolled == InitEnrolled /\ [][NextEnrolled]_vars

\* Approvals, returns and removals, with assets of up to MaxStock units.
NextStocked ==
    \/ NextEnrolled
    \/ \E h \in HRs, t \in {"Returnable", "Non-returnable"}, quoted \in BOOLEAN :
           CreateAsset(h, t, MaxStock, quoted)

SpecStocked == Init /\ [][NextStocked]_vars

\* Asset deletion together with creation, approvals and returns.
NextDelete ==
    \/ Creations
    \/ Approvals
    \/ Returns
    \/ Deletions

SpecDelete == Init /\ [][NextDelete]_vars

\* Asset and request creation, approvals, and verified payment-completion
\* events that grant a limit to a registered HR, from the state in which
\* employee e1 is enrolled.
NextPaid ==
    \/ \E h \in HRs, t \in {"Returnable", "Non-returnable"},
          q \in -1..MaxQuantity, quoted \in BOOLEAN :
           CreateAsset(h, t, q, quoted)
    \/ \E e \in Employees, a \in 1..MaxAssets : CreateRequest(e, a)
    \/ \E c \in Slots, h \in HRs, r \in 1..MaxRequests : ApproveStart(c, h, r)
    \/ \E c \in Slots : ApproveRetry(c)
    \/ \E c \in Slots : ApproveRun(c)
    \/ \E c \in Slots, s \in {x \in Sessions : Grants(x) /\ x.hrEmail \in HRs} :
           WebhookStart(c, TRUE, "checkout.session.completed", s)
    \/ \E c \in Slots : PaymentRetry(c)
    \/ \E c \in Slots : PaymentRun(c)

SpecPaid == InitEnrolled /\ [][NextPaid]_vars

\* Approvals, returns and removals together with up to MaxGrants verified
\* payment-completion events that grant a registered HR the limit
\* MaxPackageLimit.
NextWhole ==
    \/ NextEnrolled
    \/ \E c \in Slots, s \in {x \in Sessions : /\ x.hrEmail \in HRs
                                                /\ x.employeeLimit = MaxPackageLimit} :
           /\ Len(payments) + PaymentsOpen < MaxGrants
           /\ WebhookStart(c, TRUE, "checkout.session.completed", s)
    \/ \E c \in Slots : PaymentRetry(c)
    \/ \E c \in Slots : PaymentRun(c)

SpecWhole == Init /\ [][NextWhole]_vars

\* The next step of the call in slot c: the continuation of its handler, which
\* the event loop runs once the awaited operation has completed.
Continue(c) ==
    \/ ApproveRetry(c) \/ ApproveRun(c)
    \/ RejectWrite(c)
    \/ ReturnRetry(c) \/ ReturnRun(c)
    \/ RemoveRetry(c) \/ RemoveRun(c)
    \/ PaymentRetry(c) \/ PaymentRun(c)

\* Concurrent approve, reject, return, remove and payment calls about one
\* request for a returnable asset of one unit.
NextLive ==
    \/ \E h \in HRs : CreateAsset(h, "Returnable", MaxQuantity, FALSE)
    \/ \E a \in 1..MaxAssets : /\ requests = <<>>
                                /\ CreateRequest("e1", a)
    \/ \E c \in Slots, h \in HRs, r \in 1..MaxRequests : ApproveStart(c, h, r)
    \/ \E c \in Slots, h \in HRs, r \in 1..MaxRequests : RejectStart(c, h, r)
    \/ \E c \in Slots, u \in Employees, k \in 1..MaxRequests : ReturnStart(c, u, k)
    \/ \E c \in Slots, h \in HRs, e \in Employees : RemoveStart(c, h, e)
    \/ \E c \in Slots, s \in {x \in Sessions : /\ x.hrEmail \in HRs
                                                /\ x.employeeLimit = MaxPackageLimit} :
           /\ Len(payments) + PaymentsOpen < MaxGrants
           /\ WebhookStart(c, TRUE, "checkout.session.completed", s)
    \/ \E c \in Slots : Continue(c)

\* Decisions on requests and asset deletion, with decisions also attempted by
\* the HR of another company, who owns no asset and no request here.
NextTenants ==
    \/ Creations
    \/ Approvals
    \/ Rejections
    \/ Deletions
    \/ \E c \in Slots, h \in OtherHRs, r \in 1..MaxRequests : ApproveStart(c, h, r)
    \/ \E c \in Slots, h \in OtherHRs, r \in 1..MaxRequests : RejectStart(c, h, r)

SpecTenants == Init /\ [][NextTenants]_vars

\* Two companies after some use: HR h2 has a Returnable asset of one unit,
\* held by e1, whom the approval enrolled with h2; HR h1 has an asset of
\* MaxStock units, one of them held by e2, enrolled with h1, and a pending
\* request of e1 for it.
InitTwoTenants ==
    \E t \in {"Returnable", "Non-returnable"} :
        LET a1 == AssetDoc("h2", "Returnable", 1)
            a2 == AssetDoc("h1", t, MaxStock)
            r1 == RequestDoc(a1, 1, "e1")
            r2 == RequestDoc(a2, 2, "e2")
            r3 == RequestDoc(a2, 2, "e1")
        IN  /\ assets = <<Decremented(a1), Decremented(a2)>>
            /\ requests = <<Approved(r1, "h2"), Approved(r2, "h1"), r3>>
            /\ assignedAssets = <<AssignedDoc(a1, 1, r1, "h2"), AssignedDoc(a2, 2, r2, "h1")>>
            /\ users = [h \in {"h1", "h2"} |->
                            Enrolled([packageLimit |-> MaxPackageLimit,
                                      currentEmployees |-> 0, subscription |-> "basic"])]
            /\ employeeAffiliations =
                   [p \in Employees \X {"h1", "h2"} |->
                       IF p \in {<<"e1", "h2">>, <<"e2", "h1">>} THEN 1 ELSE 0]
            /\ payments = <<>>
            /\ calls = [c \in Slots |-> IdleCall]
            /\ out = NoResp

\* Approvals, returns and removals in the two companies.
NextTwoTenants ==
    \/ \E c \in Slots, h \in HRs, r \in DOMAIN requests : ApproveStart(c, h, r)
    \/ \E c \in Slots : ApproveRetry(c)
    \/ \E c \in Slots : ApproveRun(c)
    \/ \E c \in Slots, u \in Employees, k \in DOMAIN assignedAssets : ReturnStart(c, u, k)
    \/ \E c \in Slots : ReturnRetry(c)
    \/ \E c \in Slots : ReturnRun(c)
    \/ \E c \in Slots, h \in HRs, e \in Employees : RemoveStart(c, h, e)
    \/ \E c \in Slots : RemoveRetry(c)
    \/ \E c \in Slots : RemoveRun(c)

SpecTwoTenants == InitTwoTenants /\ [][NextTwoTenants]_vars

\* An operation of the driver inside the transaction of approve, return or
\* remove throws an error that is not a write conflict: withTransaction aborts
\* and rethrows it, and the catch block answers with the error's message.
StorageFailure(c) ==
    /\ calls[c].op \in {"approve", "return", "remove"}
    /\ calls[c].pc = "run"
    /\ Answer(c, calls[c], 400, MsgStorageFailure)

\* Approvals, returns and removals on a store whose operations can fail.
NextFaulty ==
    \/ NextEnrolled
    \/ \E c \in Slots : StorageFailure(c)

SpecFaulty == Init /\ [][NextFaulty]_vars

\* Fair scheduling: no call's continuation is left waiting forever.
SpecLive == Init /\ [][NextLive]_vars /\ \A c \in Slots : WF_vars(Continue(c))

\* The payment events on their own.
NextPayments ==
    \/ \E c \in Slots, signed \in BOOLEAN, type \in EventTypes, s \in Sessions :
           WebhookStart(c, signed, type, s)
    \/ \E c \in Slots, configured \in Secrets, header \in Secrets, s \in Sessions :
           SimulateStart(c, configured, header, s)
    \/ \E c \in Slots : PaymentRetry(c)
    \/ \E c \in Slots : PaymentRun(c)

SpecPayments == Init /\ [][NextPayments]_vars

\* ------------------------------------------------------------ properties
\* The step answers an approval of request r with success / with an error.
ApproveCommits(r) == out'.op = "approve" /\ out'.status = 200 /\ out'.arg = r
ApproveFails == out'.op = "approve" /\ out'.status >= 400

\* Slot c's invocation ends with this step.
Ends(c) == calls[c].pc # "idle" /\ calls'[c].pc = "idle"

\* Slots c and d hold approvals, past their first read, of two distinct pending
\* requests for the same asset, whose last unit is still there.
ConcurrentApprovals(c, d) ==
    /\ c # d
    /\ calls[c].op = "approve" /\ calls[c].pc = "run"
    /\ calls[d].op = "approve" /\ calls[d].pc = "run"
    /\ calls[c].arg # calls[d].arg
    /\ requests[calls[c].arg].requestStatus = "pending"
    /\ requests[calls[d].arg].requestStatus = "pending"
    /\ requests[calls[c].arg].assetId = requests[calls[d].arg].assetId
    /\ assets[requests[calls[c].arg].assetId].availableQuantity = 1

\* The capacity test of step 5 lets slot c's approval through.
CapacityAdmits(c) ==
    \/ ExistingAff(calls[c].view, calls[c].emp, calls[c].who)
    \/ ~ LimitReached(calls[c].view.users[calls[c].who])

\* C1 as stated: of two concurrent approvals of distinct pending requests for
\* the last unit of an asset, exactly one commits.  So when the first of them
\* ends, with nothing committed since its snapshot, either it has committed or
\* the other one is still able to.
C1_ExactlyOneCommits ==
    [][\A c, d \in Slots :
          ConcurrentApprovals(c, d) /\ calls[c].stale = {} /\ Ends(c)
              => ApproveCommits(calls[c].arg) \/ CapacityAdmits(d)]_vars

\* C1 amended: no oversell.  An approval commits only by taking a unit that is
\* there: availableQuantity goes down by one and one assignment is inserted; an
\* approval that fails changes no document; availableQuantity is never negative.
\* Of two concurrent approvals of distinct pending requests for the last unit,
\* the first to end commits unless the capacity test refuses it or a document
\* it writes changed under it, availableQuantity is then 0 and the other one
\* meets a write conflict on the asset, so at most one of them commits.
C1_NoOversell ==
    [][/\ \A r \in DOMAIN requests :
             ApproveCommits(r) =>
                 /\ assets[requests[r].assetId].availableQuantity >= 1
                 /\ assets'[requests[r].assetId].availableQuantity
                        = assets[requests[r].assetId].availableQuantity - 1
                 /\ Len(assignedAssets') = Len(assignedAssets) + 1
       /\ ApproveFails => UNCHANGED store
       /\ \A a \in DOMAIN assets' : assets'[a].availableQuantity >= 0
       /\ \A c, d \in Slots :
             ConcurrentApprovals(c, d) /\ calls[c].stale = {} /\ Ends(c)
                                       /\ CapacityAdmits(c)
                 => /\ ApproveCommits(calls[c].arg)
                    /\ assets'[requests[calls[c].arg].assetId].availableQuantity = 0
                    /\ AssetKey(requests[calls[c].arg].assetId) \in calls'[d].stale]_vars

\* C1 witness: an approval has just committed the last unit while an approval
\* of another request for the same asset is in flight on an older snapshot.
C1_Witness ==
    /\ out.op = "approve" /\ out.status = 200
    /\ \E d \in Slots :
          /\ calls[d].op = "approve" /\ calls[d].pc = "run"
          /\ calls[d].arg # out.arg
          /\ calls[d].view.assets[requests[calls[d].arg].assetId].availableQuantity = 1
          /\ assets[requests[calls[d].arg].assetId].availableQuantity = 0
          /\ AssetKey(requests[calls[d].arg].assetId) \in calls[d].stale

\* C2: capacity invariant.  For every HR account currentEmployees never
\* exceeds packageLimit, whatever approvals and affiliation removals have run.
C2_CapacityInvariant ==
    \A h \in HRs : users[h].currentEmployees <= users[h].packageLimit

\* C2 witness: the account is full and the capacity test has just refused the
\* approval of a request of one more employee.
C2_Witness ==
    /\ out.op = "approve" /\ out.message = MsgLimitReached
    /\ \E h \in HRs : users[h].currentEmployees = users[h].packageLimit

\* The changes of requestStatus the workflow allows.
LegalTransitions ==
    {<<"pending", "approved">>, <<"pending", "rejected">>, <<"approved", "returned">>}

\* C3: every change of a request's status is pending -> approved,
\* pending -> rejected or approved -> returned, under any interleaving,
\* a reject racing an approve of the same request included.
C3_LegalTransitions ==
    [][\A r \in DOMAIN requests :
          requests'[r].requestStatus # requests[r].requestStatus
              => <<requests[r].requestStatus, requests'[r].requestStatus>>
                     \in LegalTransitions]_vars

\* C4: a request is approved at most once.  An approval commits only for a
\* request that is pending in the committed collection, and then sets it to
\* approved, inserts one assignment and takes one unit; a request that has left
\* pending never is pending again.  So of concurrent approvals of one request
\* at most one commits.
C4_ApprovedAtMostOnce ==
    [][\A r \in DOMAIN requests :
          /\ ApproveCommits(r) =>
                 /\ requests[r].requestStatus = "pending"
                 /\ requests'[r].requestStatus = "approved"
                 /\ Len(assignedAssets') = Len(assignedAssets) + 1
                 /\ assets'[requests[r].assetId].availableQuantity
                        = assets[requests[r].assetId].availableQuantity - 1
          /\ requests[r].requestStatus # "pending"
                 => requests'[r].requestStatus # "pending"]_vars

\* C4 witness: an approval of request r has just committed while another
\* approval of the same request r is in flight on a snapshot taken before.
C4_Witness ==
    /\ out.op = "approve" /\ out.status = 200
    /\ \E d \in Slots :
          /\ calls[d].op = "approve" /\ calls[d].pc = "run"
          /\ calls[d].arg = out.arg
          /\ calls[d].view.requests[out.arg].requestStatus = "pending"
          /\ requests[out.arg].requestStatus = "approved"
          /\ Len(assignedAssets) = 1

\* The step commits the approval held by slot c in full: the asset has one
\* unit less, one assignment with status assigned was inserted for the
\* requester, the request is approved, and the requester was enrolled
\* (affiliation inserted, currentEmployees one more) exactly if the approval
\* found no affiliation; every other document is as it was.
FullApproval(c) ==
    LET r == calls[c].arg
        a == requests[r].assetId
        e == requests[r].requesterEmail
        h == requests[r].hrEmail
        k == Len(assignedAssets) + 1
        enrol == IF calls[c].view.employeeAffiliations[<<e, h>>] = 0 THEN 1 ELSE 0
    IN  /\ DOMAIN assets' = DOMAIN assets
        /\ \A b \in DOMAIN assets :
              /\ assets'[b].availableQuantity
                     = assets[b].availableQuantity - (IF b = a THEN 1 ELSE 0)
              /\ assets'[b].productQuantity = assets[b].productQuantity
        /\ Len(assignedAssets') = k
        /\ \A j \in DOMAIN assignedAssets : assignedAssets'[j] = assignedAssets[j]
        /\ assignedAssets'[k].status = "assigned"
        /\ assignedAssets'[k].employeeEmail = e
        /\ assignedAssets'[k].assetId = a
        /\ DOMAIN requests' = DOMAIN requests
        /\ requests[r].requestStatus = "pending"
        /\ requests'[r].requestStatus = "approved"
        /\ \A q \in DOMAIN requests : q # r => requests'[q] = requests[q]
        /\ \A p \in DOMAIN employeeAffiliations :
              employeeAffiliations'[p]
                  = employeeAffiliations[p] + (IF p = <<e, h>> THEN enrol ELSE 0)
        /\ enrol = 1 => employeeAffiliations'[<<e, h>>] = 1
        /\ users'[h].currentEmployees = users[h].currentEmployees + enrol
        /\ users'[h].packageLimit = users[h].packageLimit

\* C5: approval is all-or-nothing.  A step of an approval that answers with
\* success commits all of its writes together; a step of an approval that
\* answers with an error, or does not answer yet, changes no document; so no
\* state in which only some of the writes are visible is ever reached.
C5_AllOrNothing ==
    [][/\ \A c \in Slots :
             Ends(c) /\ ApproveCommits(calls[c].arg) => FullApproval(c)
       /\ ApproveFails => UNCHANGED store
       /\ \A c \in Slots :
             /\ calls[c].op = "approve" \/ calls'[c].op = "approve"
             /\ calls'[c] # calls[c]
             /\ out'.status # 200
             => UNCHANGED store]_vars

\* C5 witness: an approval has just committed for a requester who was not
\* affiliated, so all five writes are in the committed collections.
C5_Witness ==
    /\ out.op = "approve" /\ out.status = 200
    /\ requests[out.arg].requestStatus = "approved"
    /\ assignedAssets[out.assignedId].status = "assigned"
    /\ assets[requests[out.arg].assetId].availableQuantity = 0
    /\ employeeAffiliations[<<requests[out.arg].requesterEmail, "h1">>] = 1
    /\ users["h1"].currentEmployees = 1

\* C6: capacity rejection with rollback.  An approval that finds its requester
\* without an affiliation and currentEmployees + 1 > packageLimit on the account
\* never commits: whenever it ends it has answered with an error and no
\* document has changed, and when no document it touches changed under it the
\* error is the capacity one; after a capacity error the request is still
\* pending and no document, so no affiliation either, was written.
C6_CapacityRollback ==
    [][/\ \A c \in Slots :
             /\ calls[c].op = "approve" /\ calls[c].pc = "run" /\ Ends(c)
             /\ calls[c].view.employeeAffiliations[<<calls[c].emp, calls[c].who>>] = 0
             /\ calls[c].view.users[calls[c].who].currentEmployees + 1
                    > calls[c].view.users[calls[c].who].packageLimit
             => /\ out'.op = "approve" /\ out'.status = 400 /\ out'.arg = calls[c].arg
                /\ calls[c].stale = {} => out'.message = MsgLimitReached
                /\ UNCHANGED store
       /\ out'.op = "approve" /\ out'.message = MsgLimitReached
             => /\ UNCHANGED store
                /\ requests'[out'.arg].requestStatus = "pending"]_vars

\* C6 witness: packageLimit = 1, currentEmployees = 1, and the approval of a
\* request of a not-yet-affiliated employee has just been refused; the unit is
\* still available, no assignment of that employee exists, the request is
\* pending.
C6_Witness ==
    /\ out.op = "approve" /\ out.status = 400 /\ out.message = MsgLimitReached
    /\ users["h1"].packageLimit = 1 /\ users["h1"].currentEmployees = 1
    /\ requests[out.arg].requestStatus = "pending"
    /\ assets[requests[out.arg].assetId].availableQuantity = 1
    /\ employeeAffiliations[<<requests[out.arg].requesterEmail, "h1">>] = 0
    /\ \A k \in DOMAIN assignedAssets :
          assignedAssets[k].employeeEmail # requests[out.arg].requesterEmail

\* The step answers a return of assignment k with success.
ReturnCommits(k) == out'.op = "return" /\ out'.status = 200 /\ out'.arg = k

\* C7: return round-trip.  On a Returnable asset a successful createRequest
\* leaves availableQuantity as it is, the approval takes exactly one unit and
\* the return of the assignment gives exactly one back; and when the request
\* and the assignment of such a sequence are the only ones on record, so that
\* nothing else has touched the asset since it was created, availableQuantity
\* after the return is what it was before the request: the created quantity.
C7_ReturnRoundTrip ==
    [][/\ out'.op = "createRequest" => assets' = assets
       /\ \A r \in DOMAIN requests :
             ApproveCommits(r) =>
                 assets'[requests[r].assetId].availableQuantity
                     = assets[requests[r].assetId].availableQuantity - 1
       /\ \A k \in DOMAIN assignedAssets :
             ReturnCommits(k) =>
                 /\ assets[assignedAssets[k].assetId].productType = "Returnable"
                 /\ assets'[assignedAssets[k].assetId].availableQuantity
                        = assets[assignedAssets[k].assetId].availableQuantity + 1
                 /\ Len(requests) = 1 /\ Len(assignedAssets) = 1
                        => assets'[assignedAssets[k].assetId].availableQuantity
                               = assets'[assignedAssets[k].assetId].productQuantity]_vars

\* C7 witness: the sequence has run on a Returnable asset created with one
\* unit: one request, approved, its assignment returned by the return
\* operation, and the unit is available again.
C7_Witness ==
    /\ out.op = "return" /\ out.status = 200
    /\ Len(requests) = 1 /\ Len(assignedAssets) = 1
    /\ assignedAssets[1].status = "returned"
    /\ assets[1].productType = "Returnable"
    /\ assets[1].availableQuantity = 1

\* C8: a return of an assignment whose asset is Non-returnable always fails,
\* and leaves the assignment (assigned, no return date), the asset and every
\* request as they were.
C8_NonReturnable ==
    [][\A k \in DOMAIN assignedAssets :
          /\ out'.op = "return" /\ out'.arg = k
          /\ assets[assignedAssets[k].assetId].productType = "Non-returnable"
          => /\ out'.status >= 400
             /\ UNCHANGED store]_vars

\* C8 witness: the holder's return of an assigned Non-returnable asset has
\* just been refused, and the assignment is still assigned with no return date.
C8_Witness ==
    /\ out.op = "return" /\ out.status = 400 /\ out.message = MsgNonReturnable
    /\ assignedAssets[out.arg].status = "assigned"
    /\ ~ assignedAssets[out.arg].returned
    /\ assets[assignedAssets[out.arg].assetId].productType = "Non-returnable"
    /\ assets[assignedAssets[out.arg].assetId].availableQuantity = 0

\* C9: lifecycle scenario, for a Returnable asset of quantity 1.  A successful
\* createRequest appends a request with status pending.  An approval that
\* commits while one unit is available leaves availableQuantity 0, an
\* assignment with status assigned for the requester and the request approved.
\* A return by the holder that succeeds then leaves availableQuantity 1, the
\* assignment returned and the holder's approved request for the asset returned.
C9_Lifecycle ==
    [][/\ out'.op = "createRequest" /\ out'.status = 201
             => /\ Len(requests') = Len(requests) + 1
                /\ requests'[Len(requests')].requestStatus = "pending"
                /\ requests'[Len(requests')].assetId = out'.arg
       /\ \A r \in DOMAIN requests :
             /\ ApproveCommits(r)
             /\ assets[requests[r].assetId].productType = "Returnable"
             /\ assets[requests[r].assetId].productQuantity = 1
             /\ assets[requests[r].assetId].availableQuantity = 1
             => /\ assets'[requests[r].assetId].availableQuantity = 0
                /\ assignedAssets'[out'.assignedId].status = "assigned"
                /\ assignedAssets'[out'.assignedId].employeeEmail
                       = requests[r].requesterEmail
                /\ out'.assignedId \notin DOMAIN assignedAssets
                /\ requests'[r].requestStatus = "approved"
       /\ \A k \in DOMAIN assignedAssets :
             /\ ReturnCommits(k)
             /\ assets[assignedAssets[k].assetId].productQuantity = 1
             => /\ assignedAssets[k].status = "assigned"
                /\ assets[assignedAssets[k].assetId].availableQuantity = 0
                /\ assets'[assignedAssets[k].assetId].availableQuantity = 1
                /\ assignedAssets'[k].status = "returned"
                /\ assignedAssets'[k].returned
                /\ \A r \in DOMAIN requests :
                      /\ requests[r].assetId = assignedAssets[k].assetId
                      /\ requests[r].requesterEmail = assignedAssets[k].employeeEmail
                      /\ requests[r].requestStatus = "approved"
                      => requests'[r].requestStatus = "returned"]_vars

\* C9 witness: the lifecycle has run to its end: the one request of the asset
\* is returned, its assignment is returned, the unit is available again.
C9_Witness ==
    /\ out.op = "return" /\ out.status = 200 /\ out.message = MsgReturned
    /\ assets[1].productType = "Returnable"
    /\ assets[1].productQuantity = 1 /\ assets[1].availableQuantity = 1
    /\ Len(requests) = 1
    /\ requests[1].requestStatus = "returned" /\ requests[1].processedBy = "h1"
    /\ assignedAssets[out.arg].status = "returned"
    /\ assignedAssets[out.arg].employeeEmail = requests[1].requesterEmail

\* C10: inventory bounds.  For every asset 0 <= availableQuantity <=
\* productQuantity in every reachable state, under any interleaving of asset
\* creation, approvals, returns and affiliation removals.
C10_InventoryBounds ==
    \A a \in DOMAIN assets :
        /\ 0 <= assets[a].availableQuantity
        /\ assets[a].availableQuantity <= assets[a].productQuantity

\* C10 witness: a return has just given the unit back while a second return of
\* the same assignment, or a removal of its holder's affiliation, is in flight
\* on a snapshot in which the assignment is still assigned.
C10_Witness ==
    /\ out.op = "return" /\ out.status = 200
    /\ assets[assignedAssets[out.arg].assetId].availableQuantity
           = assets[assignedAssets[out.arg].assetId].productQuantity
    /\ \E d \in Slots :
          /\ calls[d].op \in {"return", "remove"} /\ calls[d].pc = "run"
          /\ calls[d].view.assignedAssets[out.arg].status = "assigned"
          /\ AssignedKey(out.arg) \in calls[d].stale

\* The step answers a payment event, webhook or simulated.
PaymentAnswered == out'.op \in {"webhook", "simulate"}

\* C11: payment only raises capacity.  Processing a payment-completion event
\* never lowers an HR's packageLimit: after the event it is at least what it
\* was before, whatever the granted employeeLimit and the prior packageLimit.
C11_PaymentOnlyRaises ==
    [][\A h \in HRs :
          PaymentAnswered => users'[h].packageLimit >= users[h].packageLimit]_vars

\* C12: payment idempotence.  Payment documents are keyed by the provider's
\* transaction id: however often an event is delivered, the collection holds
\* at most one document per transaction id.
C12_OneRecordPerTransaction ==
    \A i, j \in DOMAIN payments :
        payments[i].transactionId = payments[j].transactionId => i = j

\* C13: webhook signature gate.  A webhook request whose signature does not
\* verify is answered 400 in the step that receives it, which inserts no
\* payment document and changes no user's packageLimit or subscription (nor
\* any other document); no such request ever gets as far as the transaction.
C13_SignatureGate ==
    [][/\ out'.op = "webhook" /\ out'.arg = 0
              => out'.status = 400 /\ UNCHANGED store
       /\ \A c \in Slots : calls'[c].op = "webhook" => calls'[c].arg = 1]_vars

\* C13 witness: after a payment was processed and changed the HR's limit and
\* subscription, a webhook request with a bad signature has just been refused.
C13_Witness ==
    /\ out.op = "webhook" /\ out.arg = 0 /\ out.status = 400
    /\ Len(payments) >= 1
    /\ \E h \in HRs : users[h].subscription # "basic"

\* C14: asset deletion guard.  No assignment with status assigned references
\* an asset that has been deleted, in any reachable state, a deleteAsset that
\* interleaves with an approval included.
C14_NoAssignedOnDeleted ==
    \A k \in DOMAIN assignedAssets :
        assignedAssets[k].status = "assigned"
            => assets[assignedAssets[k].assetId].exists

\* C15: affiliation uniqueness.  In every reachable state there is at most one
\* affiliation document per (employee, HR) pair, also after two concurrent
\* approvals of two different pending requests of one employee who had no
\* affiliation.
C15_AffiliationUnique ==
    \A p \in DOMAIN employeeAffiliations : employeeAffiliations[p] <= 1

\* C15 witness: an approval has just enrolled an employee while an approval of
\* another pending request of the same employee is in flight on a snapshot in
\* which the employee has no affiliation.
C15_Witness ==
    /\ out.op = "approve" /\ out.status = 200
    /\ \E d \in Slots :
          /\ calls[d].op = "approve" /\ calls[d].pc = "run"
          /\ calls[d].arg # out.arg
          /\ calls[d].emp = requests[out.arg].requesterEmail
          /\ requests[calls[d].arg].requestStatus = "pending"
          /\ calls[d].view.employeeAffiliations[<<calls[d].emp, calls[d].who>>] = 0
          /\ employeeAffiliations[<<calls[d].emp, calls[d].who>>] = 1

\* The requests of employee e for asset a that are approved, and the
\* assignments of asset a to employee e that are assigned.
ApprovedRequests(e, a) ==
    {r \in DOMAIN requests :
        /\ requests[r].requesterEmail = e
        /\ requests[r].assetId = a
        /\ requests[r].requestStatus = "approved"}

AssignedAssignments(e, a) ==
    {k \in DOMAIN assignedAssets :
        /\ assignedAssets[k].employeeEmail = e
        /\ assignedAssets[k].assetId = a
        /\ assignedAssets[k].status = "assigned"}

\* C16: assignment / request 1:1.  In every reachable state, for each
\* (employee, asset) pair, the number of requests with status approved equals
\* the number of assignments with status assigned.
C16_OneToOne ==
    \A e \in Employees, a \in DOMAIN assets :
        Cardinality(ApprovedRequests(e, a)) = Cardinality(AssignedAssignments(e, a))

\* The step commits the affiliation removal held by slot c.
RemoveCommits(c) == calls[c].op = "remove" /\ Ends(c) /\ out'.status = 200

\* The assignments the step changes from assigned to returned.
Reverted ==
    {k \in DOMAIN assignedAssets :
        assignedAssets[k].status = "assigned" /\ assignedAssets'[k].status = "returned"}

\* After the step no assignment of employee e under h is assigned.
NoneAssigned(e, h) ==
    \A k \in DOMAIN assignedAssets' :
        ~ /\ assignedAssets'[k].employeeEmail = e
          /\ assignedAssets'[k].hrEmail = h
          /\ assignedAssets'[k].status = "assigned"

\* C17: offboarding postcondition.  The step that commits a removal of
\* employee e by h leaves no assignment of e under h assigned, gives every
\* asset as many units back as assignments on it were reverted, deletes the
\* affiliation, lowers currentEmployees by exactly 1 and reports the number of
\* reverted assignments; a removal that finds no affiliation fails and
\* changes nothing.
C17_Offboarding ==
    [][\A c \in Slots :
          /\ RemoveCommits(c) =>
                 /\ NoneAssigned(calls[c].emp, calls[c].who)
                 /\ \A a \in DOMAIN assets :
                       assets'[a].availableQuantity
                           = assets[a].availableQuantity
                               + Cardinality({k \in Reverted : assignedAssets[k].assetId = a})
                 /\ employeeAffiliations'[<<calls[c].emp, calls[c].who>>] = 0
                 /\ users'[calls[c].who].currentEmployees
                        = users[calls[c].who].currentEmployees - 1
                 /\ out'.returnedCount = Cardinality(Reverted)
          /\ calls[c].op = "remove" /\ Ends(c) /\ out'.message = MsgAffiliationNotFound
                 => out'.status = 400 /\ UNCHANGED store]_vars

\* Slots c and d hold approvals, past their first read, of pending requests of
\* two different employees, neither affiliated with the HR, whose account has
\* one place left (currentEmployees = packageLimit - 1); both read that
\* account, there is stock for both, and nothing slot c writes has changed
\* since its snapshot.
ConcurrentEnrollments(c, d) ==
    /\ c # d
    /\ calls[c].op = "approve" /\ calls[c].pc = "run"
    /\ calls[d].op = "approve" /\ calls[d].pc = "run"
    /\ calls[c].who = calls[d].who
    /\ calls[c].emp # calls[d].emp
    /\ requests[calls[c].arg].requestStatus = "pending"
    /\ requests[calls[d].arg].requestStatus = "pending"
    /\ employeeAffiliations[<<calls[c].emp, calls[c].who>>] = 0
    /\ employeeAffiliations[<<calls[d].emp, calls[d].who>>] = 0
    /\ calls[c].view.employeeAffiliations = employeeAffiliations
    /\ calls[d].view.employeeAffiliations = employeeAffiliations
    /\ users[calls[c].who].currentEmployees = users[calls[c].who].packageLimit - 1
    /\ calls[c].view.users = users
    /\ calls[d].view.users = users
    /\ assets[requests[calls[c].arg].assetId].availableQuantity
           >= (IF requests[calls[c].arg].assetId = requests[calls[d].arg].assetId
               THEN 2 ELSE 1)
    /\ assets[requests[calls[d].arg].assetId].availableQuantity >= 1
    /\ calls[c].stale = {}

\* C18: concurrent enrollment at the last capacity slot.  Of two concurrent
\* approvals for two different not-yet-affiliated employees on an account with
\* one place left, the first to end commits and fills the account, and the
\* other's snapshot of the users document is then out of date; an approval
\* never commits on an out-of-date snapshot, and an approval for a
\* not-yet-affiliated employee that reads a full account ends with the capacity
\* error and changes nothing; so at most one of the two creates an affiliation,
\* and currentEmployees never exceeds packageLimit.
C18_LastSlot ==
    [][/\ \A c, d \in Slots :
             ConcurrentEnrollments(c, d) /\ Ends(c)
                 => /\ ApproveCommits(calls[c].arg)
                    /\ employeeAffiliations'[<<calls[c].emp, calls[c].who>>] = 1
                    /\ employeeAffiliations'[<<calls[d].emp, calls[d].who>>] = 0
                    /\ users'[calls[c].who].currentEmployees
                           = users'[calls[c].who].packageLimit
                    /\ UserKey(calls[d].who) \in calls'[d].stale
       /\ \A d \in Slots :
             calls[d].op = "approve" /\ calls[d].pc = "run" /\ Ends(d)
                                     /\ calls[d].stale # {}
                 => out'.status = 400 /\ UNCHANGED store
       /\ \A d \in Slots :
             /\ calls[d].op = "approve" /\ calls[d].pc = "run" /\ Ends(d)
             /\ calls[d].stale = {}
             /\ ~ ExistingAff(calls[d].view, calls[d].emp, calls[d].who)
             /\ LimitReached(calls[d].view.users[calls[d].who])
             => out'.status = 400 /\ out'.message = MsgLimitReached /\ UNCHANGED store
       /\ \A h \in HRs : users'[h].currentEmployees <= users'[h].packageLimit]_vars

\* C18 witness: the account had one place left, an approval has just enrolled
\* one employee and filled it, and the approval for another not-yet-affiliated
\* employee, for an asset that still has stock, is in flight on a snapshot
\* that shows the place as free.
C18_Witness ==
    /\ out.op = "approve" /\ out.status = 200
    /\ \E d \in Slots :
          /\ calls[d].op = "approve" /\ calls[d].pc = "run"
          /\ calls[d].emp # requests[out.arg].requesterEmail
          /\ employeeAffiliations[<<requests[out.arg].requesterEmail, calls[d].who>>] = 1
          /\ employeeAffiliations[<<calls[d].emp, calls[d].who>>] = 0
          /\ users[calls[d].who].currentEmployees = users[calls[d].who].packageLimit
          /\ calls[d].view.users[calls[d].who].currentEmployees
                 = users[calls[d].who].packageLimit - 1
          /\ assets[requests[calls[d].arg].assetId].availableQuantity >= 1
          /\ UserKey(calls[d].who) \in calls[d].stale

\* C19: createRequest.  A createRequest for an existing asset answers 201
\* whatever the asset's availableQuantity, 0 included, and appends one request
\* with status pending for that asset, whose hrEmail and companyName are the
\* asset's; no createRequest changes an asset, an assignment, an affiliation
\* or an HR's counters, nor any earlier request.
C19_CreateRequest ==
    [][out'.op = "createRequest" =>
          /\ out'.arg \in DOMAIN assets /\ assets[out'.arg].exists
                 => /\ out'.status = 201
                    /\ Len(requests') = Len(requests) + 1
                    /\ requests'[Len(requests')].requestStatus = "pending"
                    /\ requests'[Len(requests')].assetId = out'.arg
                    /\ requests'[Len(requests')].requesterEmail \in Employees
                    /\ requests'[Len(requests')].hrEmail = assets[out'.arg].hrEmail
                    /\ requests'[Len(requests')].companyName
                           = assets[out'.arg].companyName
          /\ \A r \in DOMAIN requests : requests'[r] = requests[r]
          /\ UNCHANGED <<assets, assignedAssets, employeeAffiliations, users, payments>>]_vars

\* C19 witness: a request has just been created for an asset whose
\* availableQuantity is 0.
C19_Witness ==
    /\ out.op = "createRequest" /\ out.status = 201
    /\ assets[out.arg].availableQuantity = 0
    /\ requests[Len(requests)].requestStatus = "pending"
    /\ requests[Len(requests)].hrEmail = "h1"
    /\ requests[Len(requests)].companyName = CompanyName("h1")

\* C20: rejectRequest.  A reject that answers 200 was called by the HR that
\* owns the request; it sets that request's status to rejected and its
\* processedBy to that HR and leaves the request's other fields and every
\* other request as they were; a reject that answers an error
\* changes no request; and no reject changes an asset, an assignment, an
\* affiliation, an HR's counters or a payment.
C20_RejectFrame ==
    [][out'.op = "reject" =>
          /\ UNCHANGED <<assets, assignedAssets, employeeAffiliations, users, payments>>
          /\ out'.status = 200 =>
                 \E c \in Slots :
                    /\ calls[c].op = "reject" /\ Ends(c)
                    /\ calls[c].arg = out'.arg
                    /\ requests[out'.arg].hrEmail = calls[c].who
                    /\ requests' = [requests EXCEPT
                                       ![out'.arg] = [@ EXCEPT !.requestStatus = "rejected",
                                                               !.processedBy = calls[c].who]]
          /\ out'.status # 200 => requests' = requests]_vars

\* C20 witness: the reject of a pending request has just answered 200: the
\* request is rejected and stamped with its HR, no assignment exists and the
\* asset has all its units.
C20_Witness ==
    /\ out.op = "reject" /\ out.status = 200
    /\ requests[out.arg].requestStatus = "rejected"
    /\ requests[out.arg].processedBy = requests[out.arg].hrEmail
    /\ assignedAssets = <<>>
    /\ \E a \in DOMAIN assets : assets[a].availableQuantity = assets[a].productQuantity

\* The statuses from which a request can be neither approved nor rejected.
Decided == {"approved", "rejected", "returned"}

\* C21: illegal transition attempts fail without effect.  A step that answers
\* an approval or a reject of a request that is approved, rejected or returned,
\* or a return of an assignment that is returned, answers an error and changes
\* no document.
C21_IllegalAttemptsFail ==
    [][/\ /\ out'.op \in {"approve", "reject"}
          /\ out'.arg \in DOMAIN requests
          /\ requests[out'.arg].requestStatus \in Decided
          => out'.status >= 400 /\ UNCHANGED store
       /\ /\ out'.op = "return"
          /\ out'.arg \in DOMAIN assignedAssets
          /\ assignedAssets[out'.arg].status = "returned"
          => out'.status >= 400 /\ UNCHANGED store]_vars

\* C22: no silent retry.  The transaction body of an approval or a return runs
\* at most once per call: a call that has entered its body never starts the
\* body again.
C22_NoSilentRetry ==
    [][\A c \in Slots :
          calls[c].op \in {"approve", "return"} /\ calls[c].pc = "run"
              => calls'[c].pc # "begin"]_vars

\* The step commits an approval held by slot c that enrolls its requester.
EnrollCommits(c) ==
    /\ calls[c].op = "approve" /\ Ends(c) /\ out'.status = 200
    /\ users'[calls[c].who].currentEmployees > users[calls[c].who].currentEmployees

\* C23: payment / approval race.  An approval that commits an affiliation read
\* the packageLimit that is committed when it commits, never one that a
\* payment has replaced since, and after every step each HR's currentEmployees
\* is at most its packageLimit.
C23_PaymentApprovalRace ==
    [][/\ \A c \in Slots :
             EnrollCommits(c)
                 => calls[c].view.users[calls[c].who].packageLimit
                        = users[calls[c].who].packageLimit
       /\ \A h \in HRs : users'[h].currentEmployees <= users'[h].packageLimit]_vars

\* The handlers that start a session.
SessionOps == {"approve", "return", "remove", "webhook", "simulate"}

\* C24: transaction resources are always released.  When a step answers an
\* approval, a return, an affiliation removal or a payment event, the session
\* of the answered call has been ended: the slot of that call holds no open
\* transaction afterwards, on the commit path and on every abort path; the only
\* slots that hold a transaction are those of calls that have not answered.
C24_SessionsReleased ==
    [][/\ out'.op \in SessionOps
              => \A c \in Slots : calls'[c].pc # calls[c].pc => calls'[c].pc = "idle"
       /\ \A c \in Slots :
             calls'[c].pc \in {"idle", "begin", "run", "rejectWrite"}]_vars

\* C24 witness: a transaction has just been aborted on a write conflict and
\* answered as an error, a payment has been processed before, and no slot
\* holds a session.
C24_Witness ==
    /\ out.op \in SessionOps /\ out.status = 400 /\ out.message = MsgWriteConflict
    /\ Len(payments) >= 1
    /\ \A c \in Slots : calls[c] = IdleCall

\* C25: every operation terminates.  Under fair scheduling every call that is
\* in flight eventually returns to its caller: its slot becomes free again.
C25_Terminates ==
    \A c \in Slots : calls[c].pc # "idle" ~> calls[c].pc = "idle"

\* C25 witness: a call has just returned an error while another call, whose
\* transaction was aborted by a write conflict, is about to run its body again.
C25_Witness ==
    /\ out.status >= 400
    /\ \E c \in Slots : calls[c].pc = "begin"

\* C27: simulate gate.  A simulate request whose header is missing or differs
\* from the configured secret, or that arrives when no secret is configured,
\* is answered 403 in the step that receives it and changes no document; no
\* such request ever gets as far as the transaction.
C27_SimulateGate ==
    [][/\ out'.op = "simulate" /\ out'.arg = 0
              => /\ out'.status = 403 /\ out'.message = MsgSimulateSecret
                 /\ UNCHANGED store
       /\ \A c \in Slots : calls'[c].op = "simulate" => calls'[c].arg = 1]_vars

\* C27 witness: after a payment was processed, a simulate request without the
\* configured secret has just been refused.
C27_Witness ==
    /\ out.op = "simulate" /\ out.arg = 0 /\ out.status = 403
    /\ Len(payments) >= 1
    /\ \E h \in HRs : users[h].subscription # "basic"

\* The messages thrown by the precondition tests of approve, return and remove.
PreconditionMessages ==
    {MsgRequestNotFound, MsgNotAuthorizedRequest, MsgNotPending, MsgAssetNotFound,
     MsgNotAvailable, MsgDecrementFailed, MsgLimitReached,
     MsgAssignedNotFound, MsgNotAuthorizedReturn, MsgNotAssigned,
     MsgUnderlyingNotFound, MsgNonReturnable, MsgAffiliationNotFound}

\* C26: error classification.  An error response of approve, return or remove
\* is a 400-class response carrying the specific message when a precondition
\* failed, and a 500-class response with a generic message when the failure
\* was an unexpected one of the storage during the transaction.
C26_ErrorClasses ==
    [][out'.op \in {"approve", "return", "remove"} /\ out'.status >= 400
          => IF out'.message \in PreconditionMessages
             THEN out'.status \in 400..499
             ELSE /\ out'.status >= 500
                  /\ out'.message \notin {MsgStorageFailure, MsgWriteConflict}]_vars

\* The checks of approveRequest on request r for HR h, in a store or snapshot v.
Exists(v, r) == r \in DOMAIN v.requests
Owned(v, h, r) == v.requests[r].hrEmail = h
Pending(v, r) == v.requests[r].requestStatus = "pending"
AssetExists(v, r) == v.assets[v.requests[r].assetId].exists
InStock(v, r) == v.assets[v.requests[r].assetId].availableQuantity > 0
Affiliated(v, h, r) == v.employeeAffiliations[<<v.requests[r].requesterEmail, h>>] > 0
HasCapacity(v, h) == v.users[h].currentEmployees < v.users[h].packageLimit

\* The step ends an approval whose body had passed the reads of steps 1 and 2.
BodyEnds(c) == calls[c].op = "approve" /\ calls[c].pc = "run" /\ calls'[c].pc = "idle"

\* C28: approval precondition order.  The error an approval reports is that of
\* the first violated check in the order: request exists, belongs to the
\* caller, is pending, asset exists, asset in stock, then (only for an employee
\* without affiliation) capacity.  An error is reported only when all earlier
\* checks passed, and a violated check is never passed over: a request of
\* another HR reports the ownership error whatever its status, and an asset out
\* of stock reports the availability error whatever the capacity.
C28_CheckOrder ==
    [][out'.op = "approve" =>
        LET r == out'.arg
            h == out'.who
            m == out'.message
        IN  IF \E c \in Slots : BodyEnds(c)
            THEN \E c \in Slots :
                   /\ BodyEnds(c) /\ calls[c].arg = r /\ calls[c].who = h
                   /\ LET v == calls[c].view
                      IN  /\ Exists(v, r) /\ Owned(v, h, r) /\ Pending(v, r)
                          /\ AssetExists(v, r) /\ InStock(v, r)
                          /\ m = MsgLimitReached
                                => ~ Affiliated(v, h, r) /\ ~ HasCapacity(v, h)
                          /\ out'.status = 200
                                => Affiliated(v, h, r) \/ HasCapacity(v, h)
                          /\ m \in {MsgLimitReached, MsgApproved, MsgWriteConflict}
            ELSE /\ m = MsgRequestNotFound <=> ~ Exists(Store, r)
                 /\ m = MsgNotAuthorizedRequest
                        <=> Exists(Store, r) /\ ~ Owned(Store, h, r)
                 /\ m = MsgNotPending
                        <=> Exists(Store, r) /\ Owned(Store, h, r) /\ ~ Pending(Store, r)
                 /\ m = MsgAssetNotFound
                        <=> /\ Exists(Store, r) /\ Owned(Store, h, r) /\ Pending(Store, r)
                            /\ ~ AssetExists(Store, r)
                 /\ m = MsgNotAvailable
                        <=> /\ Exists(Store, r) /\ Owned(Store, h, r) /\ Pending(Store, r)
                            /\ AssetExists(Store, r) /\ ~ InStock(Store, r)
                 /\ out'.status = 400]_vars

\* C28 witness: the HR of another company has just been refused the approval
\* of a request that is no longer pending, with the ownership error.
C28_Witness ==
    /\ out.op = "approve" /\ out.who \in OtherHRs
    /\ out.message = MsgNotAuthorizedRequest
    /\ out.arg \in DOMAIN requests
    /\ requests[out.arg].requestStatus # "pending"

\* An approval has just been refused for lack of stock while the HR's capacity
\* was exhausted and the requester was not affiliated.
Case28_StockBeforeCapacity ==
    /\ out.op = "approve" /\ out.message = MsgNotAvailable
    /\ ~ Affiliated(Store, out.who, out.arg)
    /\ ~ HasCapacity(Store, out.who)

\* C29: tenant ownership of decisions.  An approve or reject of a request by
\* an HR other than the one recorded on it is answered with an error and
\* changes no document, and never gets past its ownership test; a request's
\* status becomes approved or rejected only in a step of the recorded HR, who
\* is recorded as its processor; and every assignment created carries the HR
\* of the request it was approved for.
C29_TenantOwnership ==
    [][/\ (/\ out'.op \in {"approve", "reject"}
           /\ out'.arg \in DOMAIN requests
           /\ requests[out'.arg].hrEmail # out'.who)
              => out'.status >= 400 /\ UNCHANGED store
       /\ \A c \in Slots :
              calls'[c].op \in {"approve", "reject"}
                  => requests'[calls'[c].arg].hrEmail = calls'[c].who
       /\ \A r \in DOMAIN requests :
              (/\ requests'[r].requestStatus # requests[r].requestStatus
               /\ requests'[r].requestStatus \in {"approved", "rejected"})
                  => /\ out'.op \in {"approve", "reject"} /\ out'.arg = r
                     /\ out'.who = requests[r].hrEmail
                     /\ requests'[r].processedBy = requests[r].hrEmail
       /\ \A k \in DOMAIN assignedAssets' \ DOMAIN assignedAssets :
              /\ out'.op = "approve"
              /\ assignedAssets'[k].hrEmail = requests[out'.arg].hrEmail]_vars

\* C29 witness: after the recorded HR approved a request, the HR of another
\* company has just been refused the rejection of a pending one.
C29_Witness ==
    /\ out.op = "reject" /\ out.who \in OtherHRs /\ out.status = 403
    /\ out.arg \in DOMAIN requests
    /\ requests[out.arg].requestStatus = "pending"
    /\ \E k \in DOMAIN assignedAssets : assignedAssets[k].hrEmail = requests[out.arg].hrEmail

\* C30: lazy enrollment.  The affiliation of employee e with HR h comes into
\* being only in a step that commits an approval by h of a request of e which
\* found none, and such an approval always creates it (one document, and
\* currentEmployees one higher).  An approval that finds the affiliation
\* never answers with the capacity error, leaves the affiliations and the
\* HR's counters as they are, and commits when nothing it writes has been
\* changed since its snapshot, whatever currentEmployees and packageLimit are.
C30_LazyEnrollment ==
    [][/\ \A e \in Employees, h \in HRs :
              employeeAffiliations'[<<e, h>>] > employeeAffiliations[<<e, h>>]
                  => /\ \E c \in Slots :
                            /\ BodyEnds(c) /\ out'.status = 200
                            /\ calls[c].emp = e /\ calls[c].who = h
                            /\ ~ Affiliated(calls[c].view, h, calls[c].arg)
                     /\ employeeAffiliations[<<e, h>>] = 0
                     /\ employeeAffiliations'[<<e, h>>] = 1
                     /\ users'[h].currentEmployees = users[h].currentEmployees + 1
       /\ \A c \in Slots :
              BodyEnds(c) =>
                  LET e == calls[c].emp
                      h == calls[c].who
                  IN  IF Affiliated(calls[c].view, h, calls[c].arg)
                      THEN /\ out'.message # MsgLimitReached
                           /\ UNCHANGED <<employeeAffiliations, users>>
                           /\ calls[c].stale = {} => out'.status = 200
                      ELSE out'.status = 200
                              => /\ employeeAffiliations[<<e, h>>] = 0
                                 /\ employeeAffiliations'[<<e, h>>] = 1
                                 /\ users'[h].currentEmployees
                                        = users[h].currentEmployees + 1]_vars

\* C30 witness: a second approval for the same employee has just committed
\* with the HR's currentEmployees at its packageLimit, and the employee has the
\* one affiliation the first approval created.
C30_Witness ==
    /\ out.op = "approve" /\ out.status = 200
    /\ Len(assignedAssets) = 2
    /\ assignedAssets[1].employeeEmail = assignedAssets[2].employeeEmail
    /\ employeeAffiliations[<<assignedAssets[2].employeeEmail, out.who>>] = 1
    /\ users[out.who].currentEmployees >= users[out.who].packageLimit

\* Slot c's return ends with this step, past the reads of steps 1 to 4.
ReturnEnds(c) == calls[c].op = "return" /\ calls[c].pc = "run" /\ calls'[c].pc = "idle"

\* C31: return authorization and single effect.  A return succeeds only for
\* the assignment's employee and only on an assignment that is assigned, in
\* its snapshot and in the store it commits to; a return that is refused
\* changes nothing, and one by another caller or on an assignment that is not
\* assigned is refused.  An assignment that is returned stays returned, and
\* an asset's availableQuantity grows in a step by exactly the number of its
\* assignments that the step turns from assigned to returned: so every
\* assignment gives its unit back at most once, whether returns repeat, run
\* concurrently, or race with the removal of the employee.
C31_ReturnOnce ==
    [][/\ \A k \in DOMAIN assignedAssets :
              /\ ReturnCommits(k) =>
                     /\ \E c \in Slots :
                            /\ ReturnEnds(c) /\ calls[c].arg = k
                            /\ calls[c].who = assignedAssets[k].employeeEmail
                            /\ calls[c].view.assignedAssets[k].status = "assigned"
                     /\ assignedAssets[k].status = "assigned"
                     /\ assignedAssets'[k].status = "returned"
              /\ assignedAssets[k].status = "returned"
                     => assignedAssets'[k].status = "returned"
       /\ out'.op = "return" /\ out'.status # 200 => UNCHANGED store
       /\ (/\ out'.op = "return"
           /\ out'.arg \in DOMAIN assignedAssets
           /\ assignedAssets[out'.arg].status # "assigned")
              => out'.status >= 400
       /\ \A a \in DOMAIN assets :
              assets'[a].availableQuantity > assets[a].availableQuantity
                  => assets'[a].availableQuantity
                         = assets[a].availableQuantity
                             + Cardinality({k \in Reverted : assignedAssets[k].assetId = a})]_vars

\* C31 witness: of two concurrent calls about one assignment, a return and the
\* removal of its employee, the first has committed and the return has just
\* been refused; the asset's unit is back once.
C31_Witness ==
    /\ out.op = "return" /\ out.status = 400
    /\ out.message \in {MsgNotAssigned, MsgWriteConflict}
    /\ assignedAssets[out.arg].status = "returned"
    /\ assets[assignedAssets[out.arg].assetId].availableQuantity
           = assets[assignedAssets[out.arg].assetId].productQuantity
    /\ \A h \in HRs : employeeAffiliations[<<assignedAssets[out.arg].employeeEmail, h>>] = 0

\* Slot c's payment event ends with this step, its transaction having begun.
PaymentEnds(c) ==
    /\ calls[c].op \in {"webhook", "simulate"}
    /\ calls[c].pc = "run" /\ calls'[c].pc = "idle"

\* C32: the payment grant is an overwrite, atomic with the audit row.  The
\* step that processes a payment event appends exactly one payment document,
\* which carries the event's transaction id, and, when the event grants a limit
\* L > 0 to an existing HR, leaves that HR's packageLimit equal to L whatever
\* it was; a payment event that fails writes neither.  No step writes one of
\* the two without the other, and a payment step changes no currentEmployees,
\* no other HR's document, and no affiliation, asset, request or assignment.
C32_GrantOverwrites ==
    [][/\ \A c \in Slots :
              PaymentEnds(c) =>
                  LET s == calls[c].session
                  IN  IF out'.status = 200
                      THEN /\ Len(payments') = Len(payments) + 1
                           /\ SubSeq(payments', 1, Len(payments)) = payments
                           /\ payments'[Len(payments')].transactionId = s.id
                           /\ payments'[Len(payments')].status = "completed"
                           /\ \A h \in HRs :
                                 /\ users'[h].currentEmployees = users[h].currentEmployees
                                 /\ IF h = s.hrEmail /\ s.employeeLimit > 0
                                    THEN users'[h].packageLimit = s.employeeLimit
                                    ELSE users'[h] = users[h]
                           /\ UNCHANGED <<assets, requests, assignedAssets,
                                          employeeAffiliations>>
                      ELSE UNCHANGED store
       /\ payments' # payments => \E c \in Slots : PaymentEnds(c) /\ out'.status = 200
       /\ \A h \in HRs :
              users'[h].packageLimit # users[h].packageLimit => payments' # payments]_vars

\* C32 witness: a payment event has just been processed for an HR who has an
\* employee enrolled; its limit is the one of this event, which is lower than
\* the limit the event before it had granted.
C32_Witness ==
    /\ out.op = "webhook" /\ out.status = 200
    /\ Len(payments) >= 2
    /\ payments[Len(payments)].employeeLimit < payments[Len(payments) - 1].employeeLimit
    /\ \E h \in HRs :
          /\ payments[Len(payments)].hrEmail = h
          /\ users[h].packageLimit = payments[Len(payments)].employeeLimit
          /\ users[h].currentEmployees >= 1

\* C33: currentEmployees never goes negative.  In every state reachable from
\* currentEmployees = 0 with no affiliations, by approvals, removals and
\* payment events in any interleaving, every HR's currentEmployees is >= 0.
C33_NeverNegative ==
    \A h \in HRs : users[h].currentEmployees >= 0

\* C33 witness: after a payment event was processed, a removal of an employee
\* whose enrollment an earlier removal had already ended has just been
\* refused, with the HR's currentEmployees at 0.
C33_Witness ==
    /\ out.op = "remove" /\ out.status = 400
    /\ Len(payments) >= 1
    /\ \E k \in DOMAIN assignedAssets :
          /\ assignedAssets[k].employeeEmail = out.emp
          /\ assignedAssets[k].status = "returned"
          /\ users[assignedAssets[k].hrEmail].currentEmployees = 0

\* C34: unit conservation.  In every reachable state, for every asset that
\* exists, availableQuantity plus the number of assignments with status
\* assigned that reference it equals its productQuantity.
C34_UnitConservation ==
    \A a \in DOMAIN assets :
        assets[a].exists
            => assets[a].availableQuantity + AssignedCount(a) = assets[a].productQuantity

\* C34 witness: a removal has just reverted one of the two assignments made of
\* an asset of two units; the other is still assigned and one unit is
\* available.
C34_Witness ==
    /\ out.op = "remove" /\ out.status = 200 /\ out.returnedCount = 1
    /\ \E a \in DOMAIN assets :
          /\ assets[a].productQuantity = 2
          /\ assets[a].availableQuantity = 1
          /\ AssignedCount(a) = 1
          /\ \E k \in DOMAIN assignedAssets :
                assignedAssets[k].assetId = a /\ assignedAssets[k].status = "returned"

\* The number of affiliation documents whose hrEmail is h.
AffiliationCount(h) ==
    LET RECURSIVE Sum(_)
        Sum(S) == IF S = {} THEN 0
                  ELSE LET e == CHOOSE x \in S : TRUE
                       IN  employeeAffiliations[<<e, h>>] + Sum(S \ {e})
    IN  Sum(Employees)

\* C35: the counter matches the records.  In every reachable state every
\* HR's currentEmployees equals the number of affiliation documents of that
\* HR.
C35_CounterMatches ==
    \A h \in HRs : users[h].currentEmployees = AffiliationCount(h)

\* C35 witness: with two employees enrolled, the removal of one of them has
\* just committed; one affiliation is left and the counter is 1.
C35_Witness ==
    /\ out.op = "remove" /\ out.status = 200
    /\ \E h \in HRs :
          /\ users[h].currentEmployees = 1
          /\ employeeAffiliations[<<out.emp, h>>] = 0
          /\ \E e \in Employees \ {out.emp} : employeeAffiliations[<<e, h>>] = 1

\* C36: holders are enrolled.  In every reachable state every assignment with
\* status assigned, of employee e under HR h, has an affiliation of e with h.
C36_HoldersEnrolled ==
    \A k \in DOMAIN assignedAssets :
        assignedAssets[k].status = "assigned"
            => employeeAffiliations[<<assignedAssets[k].employeeEmail,
                                      assignedAssets[k].hrEmail>>] > 0

\* C37: one-way consumption of Non-returnable assets.  No step increases the
\* availableQuantity of an asset of type Non-returnable, and no step takes an
\* assignment of such an asset out of status assigned.
C37_OneWay ==
    [][\A a \in DOMAIN assets :
          assets[a].productType = "Non-returnable"
              => /\ assets'[a].availableQuantity <= assets[a].availableQuantity
                 /\ \A k \in DOMAIN assignedAssets :
                       assignedAssets[k].assetId = a /\ assignedAssets[k].status = "assigned"
                           => assignedAssets'[k].status = "assigned"]_vars

\* C38: offboarding is tenant-scoped.  The step that commits the removal of
\* employee e by HR h leaves as they were every assignment that is not of e
\* under h, every affiliation but that of e with h, every asset of another HR
\* and every other HR's user document; a request it changes was an approved
\* request of e for an asset one of whose assignments the step reverted, and
\* becomes returned.
C38_TenantScoped ==
    [][\A c \in Slots :
          RemoveCommits(c) =>
              LET h == calls[c].who
                  e == calls[c].emp
              IN  /\ \A k \in DOMAIN assignedAssets :
                         assignedAssets[k].hrEmail # h \/ assignedAssets[k].employeeEmail # e
                             => assignedAssets'[k] = assignedAssets[k]
                  /\ \A p \in DOMAIN employeeAffiliations :
                         p # <<e, h>> => employeeAffiliations'[p] = employeeAffiliations[p]
                  /\ \A a \in DOMAIN assets :
                         assets[a].hrEmail # h => assets'[a] = assets[a]
                  /\ \A g \in HRs \ {h} : users'[g] = users[g]
                  /\ \A r \in DOMAIN requests :
                         requests'[r] # requests[r]
                             => /\ requests[r].requestStatus = "approved"
                                /\ requests[r].requesterEmail = e
                                /\ requests'[r] = RequestReturned(requests[r])
                                /\ \E k \in Reverted :
                                       assignedAssets[k].assetId = requests[r].assetId]_vars

\* C38 witness: h1 has just removed e1, reverting the one assignment e1 held
\* under h1; e1's assignment and affiliation under h2 and e2's assignment
\* under h1 are as they were.
C38_Witness ==
    /\ out.op = "remove" /\ out.status = 200 /\ out.emp = "e1" /\ out.returnedCount = 1
    /\ employeeAffiliations[<<"e1", "h1">>] = 0
    /\ employeeAffiliations[<<"e1", "h2">>] = 1
    /\ assignedAssets[1].status = "assigned" /\ assignedAssets[1].hrEmail = "h2"
    /\ assignedAssets[2].status = "assigned" /\ assignedAssets[2].employeeEmail = "e2"
    /\ assignedAssets[3].status = "returned"
    /\ requests[1].requestStatus = "approved"
    /\ users["h2"].currentEmployees = 1

\* In snapshot v a unit of the asset of request r, a Returnable asset, has been
\* given back: one of its assignments is returned.
UnitBack(v, r) ==
    /\ v.assets[v.requests[r].assetId].productType = "Returnable"
    /\ \E k \in DOMAIN v.assignedAssets :
          /\ v.assignedAssets[k].assetId = v.requests[r].assetId
          /\ v.assignedAssets[k].status = "returned"

\* An approval refused for lack of stock changes nothing and its request is
\* pending.
StockRefusalKeepsOpen ==
    out'.op = "approve" /\ out'.message = MsgNotAvailable
        => /\ out'.status = 400 /\ UNCHANGED store
           /\ requests'[out'.arg].requestStatus = "pending"

\* A step that reverts an assignment of a Returnable asset that exists leaves
\* a unit of it available.
RevertGivesUnit ==
    \A k \in Reverted :
        (/\ assets[assignedAssets[k].assetId].exists
         /\ assets[assignedAssets[k].assetId].productType = "Returnable")
            => assets'[assignedAssets[k].assetId].availableQuantity > 0

\* C39 as stated: unavailable stock keeps the request open.  An approval
\* refused because availableQuantity is 0 leaves the request pending and the
\* store unchanged; a return or a removal that reverts an assignment of the
\* Returnable asset makes a unit available; and an approval of the pending
\* request that then finds the unit, nothing it writes being changed
\* meanwhile, succeeds.
C39_StockReopens ==
    [][/\ StockRefusalKeepsOpen
       /\ RevertGivesUnit
       /\ \A c \in Slots :
              BodyEnds(c) /\ calls[c].stale = {} /\ UnitBack(calls[c].view, calls[c].arg)
                  => /\ ApproveCommits(calls[c].arg)
                     /\ requests'[calls[c].arg].requestStatus = "approved"]_vars

\* C39, amended: the same, for an approval whose requester is affiliated with
\* the HR or whose HR has a place left (currentEmployees < packageLimit).
C39_StockReopensWithinCapacity ==
    [][/\ StockRefusalKeepsOpen
       /\ RevertGivesUnit
       /\ \A c \in Slots :
              /\ BodyEnds(c) /\ calls[c].stale = {}
              /\ UnitBack(calls[c].view, calls[c].arg)
              /\ \/ Affiliated(calls[c].view, calls[c].who, calls[c].arg)
                 \/ HasCapacity(calls[c].view, calls[c].who)
              => /\ ApproveCommits(calls[c].arg)
                 /\ requests'[calls[c].arg].requestStatus = "approved"]_vars

\* C39 witness: the unit that one employee returned has just been assigned to
\* another by the approval of that employee's request, which enrolled them as
\* the HR's second employee.
C39_Witness ==
    /\ out.op = "approve" /\ out.status = 200
    /\ Len(assignedAssets) = 2
    /\ assignedAssets[1].status = "returned" /\ assignedAssets[2].status = "assigned"
    /\ assignedAssets[1].assetId = assignedAssets[2].assetId
    /\ assignedAssets[1].employeeEmail # assignedAssets[2].employeeEmail
    /\ users[out.who].currentEmployees = 2

\* The payment event of slot c grants nothing: its metadata names no HR, or
\* an HR that has no user document, or a limit that is not positive.
GrantsNothing(c) ==
    ~ (calls[c].session.hrEmail \in HRs /\ calls[c].session.employeeLimit > 0)

====
